---- MODULE Spec2Model ----
(***************************************************************************)
(* A model of reno, an OCI container runtime: the CLI verbs of src/cli.rs  *)
(* (create, start, kill, state, delete), the cloned container child of     *)
(* src/container/fork.rs, the two Unix sockets they meet on, the state     *)
(* file of src/state.rs and the container process as /proc shows it.       *)
(* One container id is modelled; CLI invocations run one after another,    *)
(* the child and the kernel run concurrently with the invocation at hand.  *)
(***************************************************************************)
EXTENDS Integers, Sequences, FiniteSets, TLC

\* Number of CLI invocations in one behaviour.
MaxOps == 4
\* Number of hooks a bundle with hooks lists in every slot.
HooksPerSlot == 1

NoFile ==
    [ociVersion |-> "absent", id |-> "absent", bundle |-> "absent",
     status |-> "absent", pid |-> 0, annotations |-> {}]

Statuses == {"creating", "created", "running", "stopped"}

\* Bundle arguments of create: a path that does not exist, a bundle whose
\* config.json does not load, a bundle with a process, namespaces and hooks
\* in every slot, a bundle with none of them, and a bundle with nothing
\* but a mount namespace.
Bundles == {"missing", "noconfig", "full", "noproc", "nsnoproc"}

\* The hook slots, in the order the OCI lifecycle runs them.
Slots == <<"createRuntime", "createContainer", "prestart", "startContainer",
           "poststart", "poststop">>

\* Signal names the kill verb is given: the seven names it knows, and one it
\* does not know.
SignalNames == {"HUP", "INT", "TERM", "STOP", "KILL", "USR1", "USR2", "CONT"}

\* Error text of the child for a bundle without process, and the text the CLI
\* compares with.
ProcessFieldMissing == "the 'process' field doesn't exist"
ProcessMissingShim == "container error: the 'process' doesn't exist"

VARIABLES
    ops,         \* CLI invocations so far
    dir,         \* <root>/<id> exists
    file,        \* <root>/<id>/state.json, NoFile when absent
    initSock,    \* init.sock is bound (the CLI's server lives)
    initPending, \* connections to init.sock not yet accepted
    ctrSock,     \* container.sock exists in the file system
    conns,       \* connections made to container.sock, in order
    srvEpoch,    \* how many of them the child has accepted
    cliVerb,     \* the verb running, or the last one run
    cliArg,      \* its argument: the bundle of create, the signal of kill
    cliPc,       \* where the CLI is in it, "done" between invocations
    cliSt,       \* the in-memory State of the invocation
    cliPid,      \* the pid fork_container returned
    cliHook,     \* index of the hook the CLI waits for
    cliResult,   \* "ok" or the error message of the last finished verb
    stdout,      \* what the last state verb printed
    failed,      \* a verb has returned an error since the container was created
    prior,       \* the verb invoked before this one, and its result
    childPc,     \* where the child is in fork_container/pipeline
    childPid,    \* its pid
    childBundle, \* the spec it was cloned with
    childHook,   \* index of the hook the child waits for
    childErr,    \* the error pipeline returned
    proc,        \* the process: "none", "alive", "stopped", "zombie", "gone"
    sigs,        \* signals sent to it and not yet delivered
    pivoted,     \* pivot_root has been done
    hookLog,     \* slots of the hooks begun, in order, since create
    hookProc,    \* the hook process the CLI and the child each wait for
    cloneFlags,  \* the flag word the child was cloned with
    declared,    \* capabilities.bounding of its config: {} or {the set}
    bounding,    \* the bounding capability set of the child
    privLog,     \* steps of start_container the live child has passed
    privErr,     \* those of them whose failure was only printed
    keepcaps,    \* the PR_SET_KEEPCAPS flag of the child
    envLog,      \* steps of init_environment the live child has passed
    pivotLog,    \* steps of pivot_rootfs the live child has passed
    rootArchive, \* the bundles whose rootfs holds a directory root_archive
    rootMoved,   \* a pivot_root has moved the root of the runtime's own namespace
    stat,        \* a function applied by itself: the process state it is given
    json,        \* the JSON document persist wrote
    sent,        \* the message handed to the write of a socket
    wire,        \* the JSON document that write sent
    received,    \* the message the read of the socket returned
    options,     \* the options of the mount entry it is given
    mounted,     \* the flag word and the data string it made of them
    sock         \* a socket server and a client of it, used by themselves

cliVars == <<cliVerb, cliArg, cliPc, cliSt, cliPid, cliHook, cliResult, stdout,
            failed, prior>>
privVars == <<cloneFlags, declared, bounding, privLog, privErr, keepcaps, envLog,
             pivotLog>>
childVars == <<childPc, childPid, childBundle, childHook, childErr, pivoted,
              rootArchive, rootMoved, privVars>>
sockVars == <<initSock, initPending, ctrSock, conns, srvEpoch>>
procVars == <<proc, sigs>>
hookVars == <<hookLog, hookProc>>
fnVars == <<stat, json, sent, wire, received, options, mounted, sock>>
vars == <<ops, dir, file, sockVars, cliVars, childVars, procVars, hookVars,
         fnVars>>

----------------------------------------------------------------------------
\* The bundle

BundleExists(b) == b # "missing"

SpecLoad(b) == b \in {"full", "noproc", "nsnoproc"}

HasProcess(b) == b = "full"

\* The hooks of the slot declare a timeout in config.json.
Timeout(b, slot) == b = "full"

\* Number of hooks config.json lists in a slot: the full bundle lists one
\* more in the two slots of create than in the others.
Hooks(b, slot) ==
    IF b # "full" THEN 0
    ELSE IF slot \in {"createRuntime", "createContainer"} THEN HooksPerSlot + 1
    ELSE HooksPerSlot

\* linux.namespaces of config.json: the kind of each entry and its path,
\* "none" for an entry without path.
Namespaces(b) ==
    IF b = "full"
    THEN <<[typ |-> "pid", path |-> "none"],
           [typ |-> "mount", path |-> "none"],
           [typ |-> "network", path |-> "/proc/1/ns/net"]>>
    ELSE IF b = "nsnoproc" THEN <<[typ |-> "mount", path |-> "none"]>>
    ELSE <<>>

\* Number of entries of mounts and of linux.devices, and whether hostname
\* is set, in config.json.
Mounts(b) == IF b = "full" THEN 2 ELSE 0
Devices(b) == IF b = "full" THEN 1 ELSE 0
Hostname(b) == b = "full"

\* root.readonly of config.json, false when it is not given.
Readonly(b) == b = "full"

\* The capabilities the model tells apart.
Caps == {"CAP_CHOWN", "CAP_KILL", "CAP_NET_RAW", "CAP_SYS_ADMIN"}

\* process.capabilities.bounding of config.json, {} when it declares none.
Bounding(b) == IF b = "full" THEN {{"CAP_CHOWN", "CAP_KILL"}} ELSE {}

----------------------------------------------------------------------------
\* Namespaces and capabilities (src/linux/namespace.rs, process.rs, cap.rs)

NamespaceKinds == {"mount", "cgroup", "uts", "ipc", "user", "pid", "network"}

namespace_to_clone_flag(typ) ==
    CASE typ = "mount" -> "CLONE_NEWNS"
      [] typ = "cgroup" -> "CLONE_NEWCGROUP"
      [] typ = "uts" -> "CLONE_NEWUTS"
      [] typ = "ipc" -> "CLONE_NEWIPC"
      [] typ = "user" -> "CLONE_NEWUSER"
      [] typ = "pid" -> "CLONE_NEWPID"
      [] typ = "network" -> "CLONE_NEWNET"

\* The flag word of clone_child, as the set of its flags: the flags of the
\* entries of the list or-ed together, the empty word for an empty list.
RECURSIVE CloneFlags(_)
CloneFlags(list) ==
    IF list = <<>> THEN {}
    ELSE {namespace_to_clone_flag(Head(list).typ)} \cup CloneFlags(Tail(list))

\* set_cap that sets the bounding set as it sets the other sets.
set_cap_NoDrop(cap_set, existing, capabilities) == capabilities

\* set_cap: every capability of the bounding set that is not declared is
\* dropped; any other set is set to the declared one.
set_cap(cap_set, existing, capabilities) ==
    IF cap_set = "bounding"
    THEN existing \ (existing \ capabilities)
    ELSE capabilities

\* The bounding step of start_container on a process whose bounding set is
\* `existing`: nothing without a declared set.
BoundingStep(existing, decl) ==
    IF decl # {}
    THEN set_cap("bounding", existing, CHOOSE c \in decl : TRUE)
    ELSE existing

\* The bounding sets the step can leave when set_cap returns an error: the
\* capabilities are dropped one prctl at a time, in the order the HashSet
\* gives them, and the first drop that fails returns; those dropped before
\* it stay dropped. The read of the set can fail too, before any drop.
BoundingStepErr(existing, decl) ==
    {s \in SUBSET existing : BoundingStep(existing, decl) \subseteq s}

----------------------------------------------------------------------------
\* The state record (src/state.rs)

OCI_VERSION == "1.0.2"

\* The id of the one container of the model.
Id == "c1"

\* State::new; annotations is an Option, {} for None and {m} for Some(m),
\* and a map is the set of its <<key, value>> pairs.
StateNew(b) ==
    [ociVersion |-> OCI_VERSION, id |-> Id, bundle |-> b,
     status |-> "creating", pid |-> -1, annotations |-> {{}}]

\* What /proc/<pid>/stat can show for the process, "unreadable" when the
\* entry cannot be read.
ProcStat(p) ==
    CASE p = "alive" -> {"R", "S", "D"}
      [] p = "stopped" -> {"T"}
      [] p = "zombie" -> {"Z"}
      [] OTHER -> {"unreadable"}

\* What /proc shows in addition while a signal is on its way to the process:
\* a stopped task that SIGKILL has woken runs (R) until it is a zombie.
Woken(p, sig) == IF p = "stopped" /\ sig = "SIGKILL" THEN {"R"} ELSE {}

InspectProcess(pid) ==
    IF pid # childPid THEN {"unreadable"}
    ELSE ProcStat(proc) \cup UNION {Woken(proc, s[2]) : s \in {q \in sigs : q[1] = pid}}

\* Refresh that forgets the process state Dead.
Refresh_DeadForgotten(st, ps) ==
    IF st.pid = -1 THEN st
    ELSE IF ps \in {"R", "S", "D"} THEN [st EXCEPT !.status = "running"]
    ELSE IF ps \in {"T", "t", "Z"} THEN [st EXCEPT !.status = "stopped"]
    ELSE IF ps = "unreadable" THEN [st EXCEPT !.status = "stopped"]
    ELSE st

\* Refresh that takes a zombie, which still has its /proc entry, for alive.
Refresh_ZombieAlive(st, ps) ==
    IF st.pid = -1 THEN st
    ELSE IF ps \in {"R", "S", "D", "Z"} THEN [st EXCEPT !.status = "running"]
    ELSE IF ps \in {"T", "t", "X"} THEN [st EXCEPT !.status = "stopped"]
    ELSE IF ps = "unreadable" THEN [st EXCEPT !.status = "stopped"]
    ELSE st

\* Refresh without the early return for a state that has no pid yet.
Refresh_NoPidCheck(st, ps) ==
    IF ps \in {"R", "S", "D"} THEN [st EXCEPT !.status = "running"]
    ELSE IF ps \in {"T", "t", "Z", "X"} THEN [st EXCEPT !.status = "stopped"]
    ELSE IF ps = "unreadable" THEN [st EXCEPT !.status = "stopped"]
    ELSE st

Refresh(st, ps) ==
    IF st.pid = -1 THEN st
    ELSE IF ps \in {"R", "S", "D"} THEN [st EXCEPT !.status = "running"]
    ELSE IF ps \in {"T", "t", "Z", "X"} THEN [st EXCEPT !.status = "stopped"]
    ELSE IF ps = "unreadable" THEN [st EXCEPT !.status = "stopped"]
    ELSE st

----------------------------------------------------------------------------
\* Mount options (src/linux/mount.rs, src/mount.rs)

\* The options the match of mount_to_msflags has an arm for.
Recognised ==
    {"defaults", "ro", "rw", "suid", "nosuid", "dev", "nodev", "exec", "noexec",
     "sync", "async", "dirsync", "remount", "mand", "nomand", "atime", "noatime",
     "diratime", "nodiratime", "bind", "rbind", "unbindable", "runbindable",
     "private", "rprivate", "shared", "rshared", "slave", "rslave", "relatime",
     "norelatime", "strictatime", "nostrictatime"}

\* is_clear with rw taken for an option that sets its flag.
is_clear_RwSets(option) ==
    option \in {"suid", "dev", "exec", "async", "nomand", "atime",
                "diratime", "private", "rprivate", "shared", "rshared", "slave",
                "rslave", "relatime", "norelatime", "strictatime", "nostrictatime"}

\* The first component of the arm: the option clears its flags.
is_clear(option) ==
    option \in {"rw", "suid", "dev", "exec", "async", "nomand", "atime",
                "diratime", "private", "rprivate", "shared", "rshared", "slave",
                "rslave", "relatime", "norelatime", "strictatime", "nostrictatime"}

\* The second component: the flags of the option, as the set of their names.
flag(option) ==
    CASE option = "defaults" -> {}
      [] option \in {"ro", "rw"} -> {"MS_RDONLY"}
      [] option \in {"suid", "nosuid"} -> {"MS_NOSUID"}
      [] option \in {"dev", "nodev"} -> {"MS_NODEV"}
      [] option \in {"exec", "noexec"} -> {"MS_NOEXEC"}
      [] option \in {"sync", "async"} -> {"MS_SYNCHRONOUS"}
      [] option = "dirsync" -> {"MS_DIRSYNC"}
      [] option = "remount" -> {"MS_REMOUNT"}
      [] option \in {"mand", "nomand"} -> {"MS_MANDLOCK"}
      [] option \in {"atime", "noatime"} -> {"MS_NOATIME"}
      [] option \in {"diratime", "nodiratime"} -> {"MS_NODIRATIME"}
      [] option = "bind" -> {"MS_BIND"}
      [] option = "rbind" -> {"MS_BIND", "MS_REC"}
      [] option = "unbindable" -> {"MS_UNBINDABLE"}
      [] option = "runbindable" -> {"MS_UNBINDABLE", "MS_REC"}
      [] option = "private" -> {"MS_PRIVATE"}
      [] option = "rprivate" -> {"MS_PRIVATE", "MS_REC"}
      [] option = "shared" -> {"MS_SHARED"}
      [] option = "rshared" -> {"MS_SHARED", "MS_REC"}
      [] option = "slave" -> {"MS_SLAVE"}
      [] option = "rslave" -> {"MS_SLAVE", "MS_REC"}
      [] option \in {"relatime", "norelatime"} -> {"MS_RELATIME"}
      [] option \in {"strictatime", "nostrictatime"} -> {"MS_STRICTATIME"}

\* mount_data.join(",")
RECURSIVE join(_)
join(list) ==
    IF list = <<>> THEN ""
    ELSE IF Len(list) = 1 THEN list[1]
    ELSE list[1] \o "," \o join(Tail(list))

\* The loop with a push for every option, recognised or not.
RECURSIVE Translate_PushAll(_, _, _)
Translate_PushAll(opts, mount_flags, mount_data) ==
    IF opts = <<>> THEN [flags |-> mount_flags, data |-> join(mount_data)]
    ELSE IF Head(opts) \in Recognised
    THEN Translate_PushAll(Tail(opts),
                           IF is_clear(Head(opts)) THEN mount_flags \ flag(Head(opts))
                           ELSE mount_flags \cup flag(Head(opts)),
                           Append(mount_data, Head(opts)))
    ELSE Translate_PushAll(Tail(opts), mount_flags, Append(mount_data, Head(opts)))

\* The loop over the options: an option with an arm clears or sets its
\* flags in the flag word, any other option is pushed to the data.
RECURSIVE Translate(_, _, _)
Translate(opts, mount_flags, mount_data) ==
    IF opts = <<>> THEN [flags |-> mount_flags, data |-> join(mount_data)]
    ELSE IF Head(opts) \in Recognised
    THEN Translate(Tail(opts),
                   IF is_clear(Head(opts)) THEN mount_flags \ flag(Head(opts))
                   ELSE mount_flags \cup flag(Head(opts)),
                   mount_data)
    ELSE Translate(Tail(opts), mount_flags, Append(mount_data, Head(opts)))

mount_to_msflags(opts) == Translate(opts, {}, <<>>)

\* Nothing has been translated.
NotMounted == [flags |-> {}, data |-> "not mounted"]

\* Before bind: no listener, no stream, nothing written, nothing read. The
\* result of a read is {} until the read has returned, then {the String}.
NoSocket(text, writer) ==
    [text |-> text, writer |-> writer, bound |-> FALSE, pending |-> 0,
     client |-> "none", stream |-> "None", server |-> "alive",
     toClient |-> <<>>, toServer |-> <<>>, written |-> FALSE, got |-> {}]

----------------------------------------------------------------------------
\* JSON (serde_json, the derives of src/state.rs)

\* A JSON value: a string, a number, null, or an object with its members
\* in the order of the document, each a pair <<key, value>>.
JString(s) == [t |-> "string", v |-> s]
JNumber(n) == [t |-> "number", v |-> n]
JNull == [t |-> "null", v |-> <<>>]
JObject(members) == [t |-> "object", v |-> members]

\* The values an object has under a key, in the order of the document.
Member(doc, key) ==
    LET under == SelectSeq(doc.v, LAMBDA m : m[1] = key)
    IN  [i \in 1..Len(under) |-> under[i][2]]

Only(set) == CHOOSE x \in set : TRUE

\* The orders in which the iteration of a HashMap can give its entries:
\* every order, the code fixes none.
Orders(map) ==
    {s \in [1..Cardinality(map) -> map] :
        \A kv \in map : \E i \in 1..Cardinality(map) : s[i] = kv}

\* The HashMap filled with the members of an object in the order of the
\* document: the value inserted last under a key replaces the earlier one.
Inserted(members) ==
    {<<members[i][1], members[i][2].v>> :
        i \in {j \in 1..Len(members) :
                 \A k \in (j + 1)..Len(members) : members[k][1] # members[j][1]}}

\* Status serialised under the name of its variant, as without rename_all.
StatusName_Variant(status) ==
    CASE status = "creating" -> "Creating"
      [] status = "created" -> "Created"
      [] status = "running" -> "Running"
      [] status = "stopped" -> "Stopped"

\* #[serde(rename_all = "camelCase")] on Status: the name a variant is
\* written as.
StatusName(status) ==
    CASE status = "creating" -> "creating"
      [] status = "created" -> "created"
      [] status = "running" -> "running"
      [] status = "stopped" -> "stopped"

\* The variants a name is read as: one, or none for an unknown name.
StatusOf(name) ==
    IF name \in {"creating", "created", "running", "stopped"} THEN {name} ELSE {}

\* serde_json::to_string(&State): the documents it can return, each an
\* object with the camelCase keys of the fields in the order of the struct.
\* The Option of a HashMap is null for None, else an object of strings with
\* the entries in one of their orders.
to_string(st) ==
    LET annotations ==
            IF st.annotations = {} THEN {JNull}
            ELSE {JObject([i \in 1..Len(order) |->
                              <<order[i][1], JString(order[i][2])>>]) :
                     order \in Orders(Only(st.annotations))}
    IN
    {JObject(<<<<"ociVersion", JString(st.ociVersion)>>,
               <<"id", JString(st.id)>>,
               <<"bundle", JString(st.bundle)>>,
               <<"status", JString(StatusName(st.status))>>,
               <<"pid", JNumber(st.pid)>>,
               <<"annotations", ann>>>>) :
        ann \in annotations}

\* What State::load returns for a document that is not a State.
LoadError == [NoFile EXCEPT !.status = "error"]

\* The key is there once, with a value of the kind: a field met twice is
\* an error of the derived Deserialize.
Has(doc, key, kind) ==
    Len(Member(doc, key)) = 1 /\ Member(doc, key)[1].t = kind

\* The value under a key that is there once.
Field(doc, key) == Member(doc, key)[1]

\* serde_json::from_str::<State>: every field but the Option must be there
\* with a value of its type, the pid within i32, the status a known name.
from_str(doc) ==
    IF /\ doc.t = "object"
       /\ \A key \in {"ociVersion", "id", "bundle", "status"} : Has(doc, key, "string")
       /\ Has(doc, "pid", "number")
       /\ Field(doc, "pid").v >= -2147483647 - 1
       /\ Field(doc, "pid").v <= 2147483647
       /\ StatusOf(Field(doc, "status").v) # {}
       /\ \/ Member(doc, "annotations") = <<>>
          \/ Has(doc, "annotations", "null")
          \/ /\ Has(doc, "annotations", "object")
             /\ \A i \in 1..Len(Field(doc, "annotations").v) :
                   Field(doc, "annotations").v[i][2].t = "string"
    THEN [ociVersion |-> Field(doc, "ociVersion").v,
          id |-> Field(doc, "id").v,
          bundle |-> Field(doc, "bundle").v,
          status |-> Only(StatusOf(Field(doc, "status").v)),
          pid |-> Field(doc, "pid").v,
          annotations |->
             IF Has(doc, "annotations", "object")
             THEN {Inserted(Field(doc, "annotations").v)}
             ELSE {}]
    ELSE LoadError

\* A message of the container socket.
Message(status, error) == [status |-> status, error |-> error]

\* No message: nothing was handed to a write, nothing was read.
NoMessage == Message("absent", "absent")

\* RuntimeError, which derives Serialize and Deserialize: an object with
\* the one field message.
RuntimeErrorToJson(text) == JObject(<<<<"message", JString(text)>>>>)

\* The document is a RuntimeError: an object with a message that is a
\* string.
IsRuntimeError(doc) == doc.t = "object" /\ Has(doc, "message", "string")

\* The message as the JSON object of its two fields: the status under its
\* camelCase name, the error null or the object of the RuntimeError.
MessageToJson(m) ==
    JObject(<<<<"status", JString(StatusName(m.status))>>,
              <<"error", IF m.error = "none" THEN JNull
                         ELSE RuntimeErrorToJson(m.error)>>>>)

\* The message read back from the object, NoMessage for any other document.
MessageFromJson(doc) ==
    IF /\ doc.t = "object"
       /\ Has(doc, "status", "string")
       /\ StatusOf(Field(doc, "status").v) # {}
       /\ \/ Member(doc, "error") = <<>>
          \/ Has(doc, "error", "null")
          \/ Has(doc, "error", "object") /\ IsRuntimeError(Field(doc, "error"))
    THEN Message(Only(StatusOf(Field(doc, "status").v)),
                 IF Has(doc, "error", "object")
                 THEN Field(Field(doc, "error"), "message").v ELSE "none")
    ELSE NoMessage

----------------------------------------------------------------------------
\* The container socket (src/socket.rs)

\* The child holds the listener of container.sock.
ServerAlive ==
    /\ proc \in {"alive", "stopped"}
    /\ childPc \notin {"none", "bind", "running", "exited"}

\* The stream the child accepted last.
SrvOpen == srvEpoch >= 1 /\ conns[srvEpoch].open

\* SocketServer::write on the accepted stream.
SrvWrite(m) == [conns EXCEPT ![srvEpoch].buf = Append(@, m)]

\* SocketClient::read, then shutdown, on the connection made last.
CliReadable == conns # <<>> /\ conns[Len(conns)].buf # <<>>
CliShutdown == [conns EXCEPT ![Len(conns)].open = FALSE]

\* Every descriptor the child held of the socket is closed: the process has
\* ended, or execvp has replaced its image.
\* The read of the CLI returns without a message: nothing is left to read
\* and nothing will be written.
ReadFails ==
    /\ conns # <<>> /\ ~CliReadable
    /\ proc \notin {"alive", "stopped"} \/ childPc \in {"running", "exited"}

\* The error of such a read: the end of the stream on a connection the
\* child had accepted, which is no message; a reset on one it had not.
\* The error of read_line on a connection that was reset.
ReadReset == "failed to read from the client"

\* The error of the read of a message from a line that is empty.
ReadEof == "failed to deserialize the message"

ReadError == IF Len(conns) <= srvEpoch THEN ReadEof ELSE ReadReset

----------------------------------------------------------------------------
InitProgram ==
    /\ ops = 0
    /\ initSock = FALSE
    /\ initPending = 0
    /\ ctrSock = FALSE
    /\ conns = <<>>
    /\ srvEpoch = 0
    /\ cliVerb = "none"
    /\ cliArg = "none"
    /\ cliPc = "done"
    /\ cliPid = 0
    /\ cliHook = 0
    /\ cliResult = "none"
    /\ stdout = NoFile
    /\ failed = FALSE
    /\ prior = <<"none", "none">>
    /\ childPc = "none"
    /\ childPid = 0
    /\ childBundle = "absent"
    /\ childHook = 0
    /\ childErr = "none"
    /\ proc = "none"
    /\ sigs = {}
    /\ pivoted = FALSE
    /\ hookLog = <<>>
    /\ hookProc = [cli |-> "none", child |-> "none"]
    /\ cloneFlags = {}
    /\ privLog = <<>>
    /\ privErr = {}
    /\ keepcaps = FALSE
    /\ envLog = <<>>
    /\ pivotLog = <<>>
    /\ rootArchive = {}
    /\ rootMoved = FALSE
    /\ json = JNull
    /\ wire = JNull
    /\ received = NoMessage
    /\ mounted = NotMounted

\* The inputs of the functions that the specifications below apply by
\* themselves; the runtime as a whole has none of them.
NoInput ==
    /\ stat = "none"
    /\ sent = NoMessage
    /\ options = <<>>
    /\ sock = NoSocket(<<>>, "server")

Init ==
    /\ InitProgram
    /\ NoInput
    /\ dir = FALSE
    /\ file = NoFile
    /\ cliSt = NoFile
    /\ declared = {}
    /\ bounding = {}

----------------------------------------------------------------------------
\* The CLI (src/cli.rs)

CliStep(pc, res, hook) ==
    /\ cliPc' = pc
    /\ cliResult' = res
    /\ cliHook' = hook
    /\ failed' = IF pc = "fork_container" THEN FALSE
                 ELSE failed \/ (pc = "done" /\ res \notin {"ok", "none"})

\* run_hook up to the wait: the command is spawned and the state is written
\* to its standard input; either can fail.
Spawned == {"running", "spawn failed", "stdin closed"}

\* The ways a running hook ends: with an exit code, or by a signal.
Exits == {"exit 0", "exit 1", "signal"}

\* run_hook that takes every exit of the hook for a success.
run_hook_AnyExit(o) ==
    CASE o = "spawn failed" -> "failed to run the hook"
      [] o = "stdin closed" -> "failed to write the state to the hook standard input"
      [] OTHER -> "ok"

\* The result of run_hook on a hook that ended as `o`: Ok for the exit code
\* 0 and for nothing else.
run_hook(o) ==
    CASE o = "spawn failed" -> "failed to run the hook"
      [] o = "stdin closed" -> "failed to write the state to the hook standard input"
      [] o = "exit 0" -> "ok"
      [] o = "exit 1" -> "failed to run the hook"
      [] o = "signal" -> "failed to run the hook"

\* The loop over the hooks of a slot: the first hook is spawned, or, with no
\* hook in the slot, the verb goes on at `next`.
EnterSlot(slot, b, next, res) ==
    IF Hooks(b, slot) > 0
    THEN /\ CliStep(slot, cliResult, 1)
         /\ hookLog' = Append(hookLog, slot)
         /\ \E s \in Spawned : hookProc' = [hookProc EXCEPT !.cli = s]
    ELSE /\ CliStep(next, res, 0)
         /\ UNCHANGED hookVars

\* init_socket_server is dropped when create returns: the listener is
\* closed, and init.sock is removed when the path exists for the CLI, which
\* it does not once a pivot_root has moved its root.
DropInit ==
    /\ initSock' = (initSock /\ (cliPc' # "done" \/ rootMoved))
    /\ initPending' = IF cliPc' = "done" THEN 0 ELSE initPending

Invoke(verb, arg) ==
    /\ cliPc = "done"
    /\ ops < MaxOps
    /\ ops' = ops + 1
    /\ cliVerb' = verb
    /\ cliArg' = arg
    /\ prior' = <<cliVerb, cliResult>>

\* State::load
LoadFails == ~dir \/ file = NoFile

\* create without the check that the container directory is new.
CreateChecks_NoExists(b) ==
    IF ~BundleExists(b) THEN "the bundle doesn't exist"
    ELSE IF ~SpecLoad(b) THEN "failed to load the bundle configuration"
    ELSE "ok"

\* create that makes the container directory before it looks at the bundle.
CreateChecks_NoBundle(b) ==
    IF dir THEN "the container exists" ELSE "ok"

\* create, up to the bind of the init socket.
CreateChecks(b) ==
    IF ~BundleExists(b) THEN "the bundle doesn't exist"
    ELSE IF ~SpecLoad(b) THEN "failed to load the bundle configuration"
    ELSE IF dir THEN "the container exists"
    ELSE "ok"

CreateBegin(b) ==
    /\ Invoke("create", b)
    /\ IF CreateChecks(b) # "ok"
       THEN /\ CliStep("done", CreateChecks(b), 0)
            /\ UNCHANGED <<dir, file, sockVars, cliSt, cliPid, stdout,
                           childVars, procVars, hookVars>>
       ELSE /\ dir' = TRUE
            /\ file' = StateNew(b)
            /\ cliSt' = StateNew(b)
            /\ initSock' = TRUE
            /\ initPending' = 0
            /\ ctrSock' = FALSE
            /\ conns' = <<>>
            /\ srvEpoch' = 0
            /\ CliStep("fork_container", "none", 0)
            /\ cliPid' = 0
            /\ hookLog' = <<>>
            /\ hookProc' = [cli |-> "none", child |-> "none"]
            /\ childPc' = "none"
            /\ childPid' = 0
            /\ childBundle' = "absent"
            /\ childHook' = 0
            /\ childErr' = "none"
            /\ pivoted' = FALSE
            /\ UNCHANGED <<rootArchive, rootMoved>>
            /\ proc' = "none"
            /\ sigs' = {}
            /\ cloneFlags' = {}
            /\ declared' = {}
            /\ bounding' = {}
            /\ privLog' = <<>>
            /\ privErr' = {}
            /\ keepcaps' = FALSE
            /\ envLog' = <<>>
            /\ pivotLog' = <<>>
            /\ UNCHANGED stdout
    /\ UNCHANGED fnVars

\* fork_container: clone fails, or the child starts at the bind of its socket,
\* in the namespaces of the flag word, with the bounding set of the runtime.
CreateFork ==
    /\ cliVerb = "create" /\ cliPc = "fork_container"
    /\ \/ /\ CliStep("done", "failed to invoke clone()", 0)
          /\ DropInit
          /\ UNCHANGED <<cliPid, childVars, procVars>>
       \/ /\ CliStep("init_listen", "none", 0)
          /\ cliPid' = ops + 1
          /\ childPc' = "bind"
          /\ childPid' = ops + 1
          /\ childBundle' = cliSt.bundle
          /\ proc' = "alive"
          /\ cloneFlags' = CloneFlags(Namespaces(cliSt.bundle))
          /\ declared' = Bounding(cliSt.bundle)
          /\ bounding' = Caps
          /\ UNCHANGED <<childHook, childErr, pivoted, rootArchive, rootMoved, sigs,
                         privLog, privErr,
                         keepcaps, envLog, pivotLog>>
          /\ UNCHANGED <<initSock, initPending>>
    /\ UNCHANGED <<ops, dir, file, ctrSock, conns, srvEpoch, cliVerb, cliArg, prior,
                   cliSt, stdout, hookVars>>
    /\ UNCHANGED fnVars

\* init_socket_server.listen(): accept the child's readiness ping.
CreateInitListen ==
    /\ cliVerb = "create" /\ cliPc = "init_listen"
    /\ initPending > 0
    /\ initPending' = initPending - 1
    /\ CliStep("connect1", "none", 0)
    /\ UNCHANGED <<ops, dir, file, initSock, ctrSock, conns, srvEpoch, cliVerb,
                   cliArg, prior, cliSt, cliPid, stdout, childVars, procVars, hookVars>>
    /\ UNCHANGED fnVars

\* SocketClient::connect(container.sock), in create (twice) and in start.
CliConnect ==
    /\ cliPc \in {"connect1", "connect2", "connect3"}
    /\ IF ServerAlive
       THEN /\ conns' = Append(conns, [open |-> TRUE, buf |-> <<>>])
            /\ CliStep(CASE cliPc = "connect1" -> "read1"
                         [] cliPc = "connect2" -> "read2"
                         [] OTHER -> "read3", "none", 0)
       ELSE /\ CliStep("done", "failed to connect to container.sock", 0)
            /\ UNCHANGED conns
    /\ DropInit
    /\ UNCHANGED <<ops, dir, file, ctrSock, srvEpoch, cliVerb, cliArg, prior, cliSt,
                   cliPid, stdout, childVars, procVars, hookVars>>
    /\ UNCHANGED fnVars

ErrorOf(prefix, m) ==
    IF m.error # "none" THEN prefix \o ": " \o m.error ELSE prefix

\* create: the first message; createRuntime hooks on `creating`.
CreateRead1 ==
    /\ cliVerb = "create" /\ cliPc = "read1"
    /\ CliReadable \/ ReadFails
    /\ IF CliReadable
       THEN LET m == Head(conns[Len(conns)].buf) IN
            IF m.status = "creating"
            THEN EnterSlot("createRuntime", cliSt.bundle, "connect2", "none")
            ELSE /\ CliStep("done", ErrorOf("failed to create the container", m), 0)
                 /\ UNCHANGED hookVars
       ELSE /\ CliStep("done", ReadError, 0)
            /\ UNCHANGED hookVars
    /\ conns' = CliShutdown
    /\ DropInit
    /\ UNCHANGED <<ops, dir, file, ctrSock, srvEpoch, cliVerb, cliArg, prior, cliSt,
                   cliPid, stdout, childVars, procVars>>
    /\ UNCHANGED fnVars

\* state.persist of a CLI whose root a pivot_root has moved meanwhile:
\* File::create does not find the container directory, the file stays.
PersistFile(st, old, moved) == IF moved THEN old ELSE st
PersistResult(moved) == IF moved THEN "failed to create state.json" ELSE "ok"

\* The commit of create without the pid of the child.
CreateCommit_NoPid(st, pid) == [st EXCEPT !.status = "created"]

\* create: the second message; the state is committed on `created`.
CreateCommit(st, pid) == [st EXCEPT !.pid = pid, !.status = "created"]

CreateRead2 ==
    /\ cliVerb = "create" /\ cliPc = "read2"
    /\ CliReadable \/ ReadFails
    /\ IF CliReadable
       THEN LET m == Head(conns[Len(conns)].buf) IN
            IF m.status = "created"
            THEN /\ cliSt' = CreateCommit(cliSt, cliPid)
                 /\ file' = PersistFile(cliSt', file, rootMoved)
                 /\ CliStep("done", PersistResult(rootMoved), 0)
            ELSE /\ CliStep("done", ErrorOf("failed to create the container", m), 0)
                 /\ UNCHANGED <<cliSt, file>>
       ELSE /\ CliStep("done", ReadError, 0)
            /\ UNCHANGED <<cliSt, file>>
    /\ conns' = CliShutdown
    /\ DropInit
    /\ UNCHANGED <<ops, dir, ctrSock, srvEpoch, cliVerb, cliArg, prior, cliPid,
                   stdout, childVars, procVars, hookVars>>
    /\ UNCHANGED fnVars

\* Where a verb goes on after the hooks of a slot.
AfterSlot(slot) ==
    CASE slot = "createRuntime" -> "connect2"
      [] slot = "prestart" -> "connect3"
      [] OTHER -> "done"

\* run_hook returns to the loop of the CLI: an error ends the verb, Ok lets
\* the loop spawn the next hook of the slot or, after the last, the verb go on.
CliHookExit ==
    /\ cliPc \in {"createRuntime", "prestart", "poststart", "poststop"}
    /\ hookProc.cli \notin {"none", "running"}
    /\ IF run_hook(hookProc.cli) # "ok"
       THEN /\ CliStep("done", run_hook(hookProc.cli), 0)
            /\ hookProc' = [hookProc EXCEPT !.cli = "none"]
            /\ UNCHANGED hookLog
       ELSE IF cliHook < Hooks(cliSt.bundle, cliPc)
       THEN /\ CliStep(cliPc, cliResult, cliHook + 1)
            /\ hookLog' = Append(hookLog, cliPc)
            /\ \E s \in Spawned : hookProc' = [hookProc EXCEPT !.cli = s]
       ELSE /\ CliStep(AfterSlot(cliPc),
                       IF AfterSlot(cliPc) = "done" THEN "ok" ELSE "none", 0)
            /\ hookProc' = [hookProc EXCEPT !.cli = "none"]
            /\ UNCHANGED hookLog
    /\ DropInit
    /\ UNCHANGED <<ops, dir, file, ctrSock, conns, srvEpoch, cliVerb, cliArg, prior,
                   cliSt, cliPid, stdout, childVars, procVars>>
    /\ UNCHANGED fnVars

\* start without the check of the status.
StartChecks_NoStatus ==
    IF LoadFails THEN "failed to read the state" ELSE "ok"

\* start, up to the prestart hooks.
StartChecks ==
    IF LoadFails THEN "failed to read the state"
    ELSE IF file.status # "created"
    THEN "the container is not in the 'Created' state"
    ELSE "ok"

StartBegin ==
    /\ Invoke("start", "none")
    /\ IF StartChecks # "ok"
       THEN /\ CliStep("done", StartChecks, 0)
            /\ UNCHANGED <<cliSt, hookVars>>
       ELSE /\ cliSt' = file
            /\ EnterSlot("prestart", file.bundle, "connect3", "none")
    /\ UNCHANGED <<dir, file, sockVars, cliPid, stdout, childVars, procVars>>
    /\ UNCHANGED fnVars

\* start: the message of the start phase.
StartRead ==
    /\ cliVerb = "start" /\ cliPc = "read3"
    /\ CliReadable \/ ReadFails
    /\ IF CliReadable
       THEN LET m == Head(conns[Len(conns)].buf) IN
            IF m.status = "running"
            THEN /\ \E ps \in InspectProcess(cliSt.pid) : cliSt' = Refresh(cliSt, ps)
                 /\ file' = cliSt'
                 /\ EnterSlot("poststart", cliSt.bundle, "done", "ok")
            ELSE /\ IF m.error = ProcessMissingShim
                    THEN CliStep("done", "ok", 0)
                    ELSE CliStep("done", ErrorOf("failed to start the container", m), 0)
                 /\ UNCHANGED <<cliSt, file, hookVars>>
       ELSE /\ CliStep("done", ReadError, 0)
            /\ UNCHANGED <<cliSt, file, hookVars>>
    /\ conns' = CliShutdown
    /\ UNCHANGED <<ops, dir, initSock, initPending, ctrSock, srvEpoch, cliVerb,
                   cliArg, prior, cliPid, stdout, childVars, procVars>>
    /\ UNCHANGED fnVars

\* state
StateVerb ==
    /\ Invoke("state", "none")
    /\ IF LoadFails
       THEN /\ CliStep("done", "failed to read the state", 0)
            /\ UNCHANGED <<file, cliSt, stdout>>
       ELSE /\ \E ps \in InspectProcess(file.pid) : cliSt' = Refresh(file, ps)
            /\ stdout' = cliSt'
            /\ file' = cliSt'
            /\ CliStep("done", "ok", 0)
    /\ UNCHANGED <<dir, sockVars, cliPid, childVars, procVars, hookVars>>
    /\ UNCHANGED fnVars

\* kill: the signal a name stands for.
SignalOf(name) ==
    CASE name = "HUP" -> "SIGHUP"
      [] name = "INT" -> "SIGINT"
      [] name = "TERM" -> "SIGTERM"
      [] name = "STOP" -> "SIGSTOP"
      [] name = "KILL" -> "SIGKILL"
      [] name = "USR1" -> "SIGUSR1"
      [] name = "USR2" -> "SIGUSR2"
      [] OTHER -> "SIGKILL"

\* kill(2) finds the process (a zombie too).
KillDelivers(pid) == pid = childPid /\ proc \in {"alive", "stopped", "zombie"}

\* kill without the check of the status.
KillChecks_NoStatus ==
    IF LoadFails THEN "failed to read the state" ELSE "ok"

\* kill, up to the signal.
KillChecks ==
    IF LoadFails THEN "failed to read the state"
    ELSE IF file.status \notin {"created", "running"}
    THEN "the container is not in the 'Created' or 'Running' state"
    ELSE "ok"

\* kill, up to the signal sent: a signal pending is the pair of the pid it
\* was sent to and the signal.
KillBegin(name) ==
    /\ Invoke("kill", name)
    /\ IF KillChecks # "ok"
       THEN /\ CliStep("done", KillChecks, 0)
            /\ UNCHANGED <<cliSt, sigs>>
       ELSE IF ~KillDelivers(file.pid)
       THEN /\ CliStep("done", "failed to kill the container", 0)
            /\ UNCHANGED <<cliSt, sigs>>
       ELSE /\ sigs' = IF proc = "zombie" THEN sigs
                       ELSE sigs \cup {<<file.pid, SignalOf(name)>>}
            /\ cliSt' = file
            /\ CliStep("kill_refresh", "none", 0)
    /\ UNCHANGED <<dir, file, sockVars, cliPid, stdout, childVars, proc, hookVars>>
    /\ UNCHANGED fnVars

\* kill: refresh and persist.
KillRefresh ==
    /\ cliVerb = "kill" /\ cliPc = "kill_refresh"
    /\ \E ps \in InspectProcess(cliSt.pid) : cliSt' = Refresh(cliSt, ps)
    /\ file' = cliSt'
    /\ CliStep("done", "ok", 0)
    /\ UNCHANGED <<ops, dir, sockVars, cliVerb, cliArg, prior, cliPid, stdout,
                   childVars, procVars, hookVars>>
    /\ UNCHANGED fnVars

\* A verb invoked by a process whose root a pivot_root has moved: the paths
\* of the runtime resolve in the rootfs of the bundle, where create does not
\* find the bundle and the other verbs do not find the state file.
MovedVerb ==
    /\ rootMoved
    /\ \/ \E b \in Bundles :
             Invoke("create", b) /\ CliStep("done", "the bundle doesn't exist", 0)
       \/ \E verb \in {"start", "state", "delete"} :
             Invoke(verb, "none") /\ CliStep("done", "failed to read the state", 0)
       \/ \E name \in SignalNames :
             Invoke("kill", name) /\ CliStep("done", "failed to read the state", 0)
    /\ UNCHANGED <<dir, file, sockVars, cliSt, cliPid, stdout, childVars,
                   procVars, hookVars>>
    /\ UNCHANGED fnVars

\* delete, up to the removal of the container directory.
DeleteChecks ==
    IF LoadFails THEN "failed to read the state"
    ELSE IF file.status # "stopped"
    THEN "the container is not in the 'Stopped' state"
    ELSE "ok"

DeleteBegin ==
    /\ Invoke("delete", "none")
    /\ IF DeleteChecks # "ok"
       THEN /\ CliStep("done", DeleteChecks, 0)
            /\ UNCHANGED <<dir, file, sockVars, cliSt, hookVars>>
       ELSE /\ cliSt' = file
            /\ dir' = FALSE
            /\ file' = NoFile
            /\ ctrSock' = FALSE
            /\ initSock' = FALSE
            /\ UNCHANGED <<initPending, conns, srvEpoch>>
            /\ EnterSlot("poststop", file.bundle, "done", "ok")
    /\ UNCHANGED <<cliPid, stdout, childVars, procVars>>
    /\ UNCHANGED fnVars

----------------------------------------------------------------------------
\* The child (src/container/fork.rs, create.rs, start.rs)

ChildStep(pc, err, hook) ==
    /\ childPc' = pc
    /\ childErr' = err
    /\ childHook' = hook

\* The loop over the hooks of a slot, inside the child.
ChildEnterSlot(slot, next) ==
    IF Hooks(childBundle, slot) > 0
    THEN /\ ChildStep(slot, "none", 1)
         /\ hookLog' = Append(hookLog, slot)
         /\ \E s \in Spawned : hookProc' = [hookProc EXCEPT !.child = s]
    ELSE /\ ChildStep(next, "none", 0)
         /\ UNCHANGED hookVars

\* An unwrap() of the child panics on an Err: the process ends there, with
\* the message of the panic on its standard error and none on the socket.
ChildPanic ==
    /\ ChildStep("exited", "panicked: called Result::unwrap() on an Err value", 0)
    /\ proc' = "zombie"

\* The child has called pivot_root: its paths resolve in the rootfs.
RootSwitched == \E i \in 1..Len(pivotLog) : pivotLog[i] = "pivot_root"

\* Drop for SocketServer, run by the unwinding of a panic: container.sock is
\* removed when the path exists for the child.
DropServer == ctrSock' = (ctrSock /\ RootSwitched)

\* What the model keeps of a process is forgotten when it ends.
Forget ==
    /\ privLog' = <<>>
    /\ privErr' = {}
    /\ keepcaps' = FALSE
    /\ envLog' = <<>>
    /\ pivotLog' = <<>>

\* The child going on to its connect without a bound socket.
ChildBind_NoSocket ==
    /\ childPc = "bind" /\ proc = "alive"
    /\ \/ ChildStep("connect_init", "none", 0) /\ UNCHANGED proc
       \/ ChildPanic
    /\ UNCHANGED <<ops, dir, file, initSock, initPending, ctrSock, conns,
                   srvEpoch, cliVars, childPid, childBundle, privVars, pivoted,
                   rootArchive, rootMoved, sigs, hookVars>>
    /\ UNCHANGED fnVars

\* SocketServer::bind(container_socket_path).unwrap(): the socket is bound,
\* or bind returns an error and the unwrap panics.
ChildBind ==
    /\ childPc = "bind" /\ proc = "alive"
    /\ \/ /\ ctrSock' = TRUE
          /\ ChildStep("connect_init", "none", 0)
          /\ UNCHANGED proc
       \/ /\ ChildPanic
          /\ UNCHANGED ctrSock
    /\ UNCHANGED <<ops, dir, file, initSock, initPending, conns, srvEpoch,
                   cliVars, childPid, childBundle, privVars, pivoted,
                   rootArchive, rootMoved, sigs, hookVars>>
    /\ UNCHANGED fnVars

\* SocketClient::connect(init_socket_path), then shutdown.
ChildConnectInit ==
    /\ childPc = "connect_init" /\ proc = "alive"
    /\ initSock
    /\ initPending' = initPending + 1
    /\ ChildStep("listen1", "none", 0)
    /\ UNCHANGED <<ops, dir, file, initSock, ctrSock, conns, srvEpoch, cliVars,
                   childPid, childBundle, privVars, pivoted, rootArchive, rootMoved,
                   procVars, hookVars>>
    /\ UNCHANGED fnVars

\* listen that runs the startContainer hooks behind the second barrier too.
ChildListen_WrongSlot ==
    /\ childPc \in {"listen1", "listen2", "listen3"} /\ proc = "alive"
    /\ srvEpoch < Len(conns)
    /\ srvEpoch' = srvEpoch + 1
    /\ CASE childPc = "listen1" ->
              ChildStep("init_environment", "none", 0) /\ UNCHANGED hookVars
         [] childPc = "listen2" ->
              ChildEnterSlot("startContainer", "pivot_rootfs")
         [] OTHER ->
              ChildEnterSlot("startContainer", "start_container")
    /\ UNCHANGED <<ops, dir, file, initSock, initPending, ctrSock, conns,
                   cliVars, childPid, childBundle, privVars, pivoted,
                   rootArchive, rootMoved, procVars>>
    /\ UNCHANGED fnVars

\* container_socket_server.listen(): accept the next connection of the CLI,
\* then begin the phase behind the barrier.
ChildListen ==
    /\ childPc \in {"listen1", "listen2", "listen3"} /\ proc = "alive"
    /\ srvEpoch < Len(conns)
    /\ srvEpoch' = srvEpoch + 1
    /\ CASE childPc = "listen1" ->
              ChildStep("init_environment", "none", 0) /\ UNCHANGED hookVars
         [] childPc = "listen2" ->
              ChildEnterSlot("createContainer", "pivot_rootfs")
         [] OTHER ->
              ChildEnterSlot("startContainer", "start_container")
    /\ UNCHANGED <<ops, dir, file, initSock, initPending, ctrSock, conns,
                   cliVars, childPid, childBundle, privVars, pivoted,
                   rootArchive, rootMoved, procVars>>
    /\ UNCHANGED fnVars

\* A step of the pipeline that succeeds or returns an error.
ChildWork(pc, next, err) ==
    /\ childPc = pc /\ proc = "alive"
    /\ \/ ChildStep(next, "none", 0)
       \/ ChildStep("error", err, 0)
    /\ UNCHANGED <<ops, dir, file, sockVars, cliVars, childPid, childBundle, privVars,
                   procVars, hookVars>>

\* The calls of init_environment, in the order it makes them: setns on
\* every namespace of the list that has a path, the two mounts of
\* mount_rootfs, a custom_mount for every mount of the list, a create_device
\* for every device of the list, the default devices, the default symlinks,
\* the hostname.
\* A call is the function and the index of the entry it is made for.
RECURSIVE SetNs(_, _)
SetNs(list, k) ==
    IF k > Len(list) THEN <<>>
    ELSE (IF list[k].path # "none" THEN <<<<"setns", k>>>> ELSE <<>>)
         \o SetNs(list, k + 1)

\* init_environment that mounts the root before it joins the namespaces.
EnvPlan_MountFirst(b) ==
    <<<<"mount_rootfs", 1>>, <<"mount_rootfs", 2>>>>
    \o SetNs(Namespaces(b), 1)
    \o [i \in 1..Mounts(b) |-> <<"custom_mount", i>>]
    \o [i \in 1..Devices(b) |-> <<"create_device", i>>]
    \o <<<<"create_default_device", 1>>, <<"create_default_symlink", 1>>>>
    \o (IF Hostname(b) THEN <<<<"set_hostname", 1>>>> ELSE <<>>)

EnvPlan(b) ==
    SetNs(Namespaces(b), 1)
    \o <<<<"mount_rootfs", 1>>, <<"mount_rootfs", 2>>>>
    \o [i \in 1..Mounts(b) |-> <<"custom_mount", i>>]
    \o [i \in 1..Devices(b) |-> <<"create_device", i>>]
    \o <<<<"create_default_device", 1>>, <<"create_default_symlink", 1>>>>
    \o (IF Hostname(b) THEN <<<<"set_hostname", 1>>>> ELSE <<>>)

\* init_environment, one call at a time: the call succeeds, and after the
\* last one the function returns Ok, or it fails and the function returns
\* its error.
ChildInitEnvironment ==
    /\ childPc = "init_environment" /\ proc = "alive"
    /\ Len(envLog) < Len(EnvPlan(childBundle))
    /\ \/ /\ envLog' = Append(envLog, EnvPlan(childBundle)[Len(envLog) + 1])
          /\ IF Len(envLog') = Len(EnvPlan(childBundle))
             THEN ChildStep("write_creating", "none", 0)
             ELSE UNCHANGED <<childPc, childErr, childHook>>
       \/ /\ ChildStep("error", "init_environment failed", 0)
          /\ UNCHANGED envLog
    /\ UNCHANGED <<ops, dir, file, sockVars, cliVars, childPid, childBundle,
                   cloneFlags, declared, bounding, privLog, privErr, keepcaps,
                   pivotLog, pivoted, rootArchive, rootMoved, procVars,
                   hookVars>>
    /\ UNCHANGED fnVars

\* The calls of pivot_rootfs, in the order it makes them, each returning its
\* error.
pivot_rootfs ==
    <<"chdir", "create_dir_all", "pivot_root", "umount2", "remove_dir_all",
      "chdir_root">>

\* The calls the child makes for pivot_rootfs(&rootfs, readonly): those of
\* the function, which has no use for readonly.
PivotPlan(b) == pivot_rootfs

\* The rootfs directories that hold a root_archive after a call that
\* succeeded in the rootfs of a bundle.
Archive(step, b, holding) ==
    CASE step = "create_dir_all" -> holding \cup {b}
      [] step = "remove_dir_all" -> holding \ {b}
      [] OTHER -> holding

\* pivot_root moves the root of every process of the mount namespace of the
\* caller: of the child alone when it was cloned into a namespace of its
\* own, of the CLI and of whoever invokes it too when it was not.
MovesRoot(step, flags, moved) ==
    moved \/ (step = "pivot_root" /\ "CLONE_NEWNS" \notin flags)

\* pivot_rootfs, one call at a time: the call succeeds, and after the last
\* one the function returns Ok, or it fails and the function returns its
\* error at once.
ChildPivotRootfs ==
    /\ childPc = "pivot_rootfs" /\ proc = "alive"
    /\ LET step == PivotPlan(childBundle)[Len(pivotLog) + 1] IN
       \/ /\ pivotLog' = Append(pivotLog, step)
          /\ rootArchive' = Archive(step, childBundle, rootArchive)
          /\ rootMoved' = MovesRoot(step, cloneFlags, rootMoved)
          /\ IF Len(pivotLog') = Len(PivotPlan(childBundle))
             THEN ChildStep("set_sysctl", "none", 0) /\ pivoted' = TRUE
             ELSE UNCHANGED <<childPc, childErr, childHook, pivoted>>
       \/ /\ ChildStep("error", "failed to pivot the root", 0)
          /\ UNCHANGED <<pivotLog, rootArchive, rootMoved, pivoted>>
    /\ UNCHANGED <<ops, dir, file, sockVars, cliVars, childPid, childBundle,
                   cloneFlags, declared, bounding, privLog, privErr, keepcaps,
                   envLog, procVars, hookVars>>
    /\ UNCHANGED fnVars

ChildSetSysctl ==
    /\ ChildWork("set_sysctl", "write_created", "failed to set the sysctl")
    /\ UNCHANGED <<pivoted, rootArchive, rootMoved>>
    /\ UNCHANGED fnVars

\* The steps of start_container after its hooks, in the order of the code.
StartSteps ==
    <<"env", "rlimits", "oom_score_adj", "bounding", "keepcaps_on", "setgid",
      "umask", "setgroups", "setuid", "keepcaps_off", "effective", "permitted",
      "inheritable", "ambient", "chdir">>

\* The steps whose error start_container returns, and those whose error it
\* prints.
Returned ==
    {"rlimits", "oom_score_adj", "bounding", "keepcaps_on", "setgid", "umask",
     "setgroups", "setuid", "keepcaps_off", "chdir"}
Printed == {"effective", "permitted", "inheritable", "ambient"}

\* start_container that goes on after the failure of any step.
OnFailure_Ignored(step) == "go on"

\* What the failure of a step does: the error is printed and the steps go
\* on, or it is returned and ends start_container.
OnFailure(step) ==
    IF step \in Printed THEN "go on" ELSE "return"

\* prctl::set_keepcaps that never clears the flag.
set_keepcaps_NeverCleared(step, keep) ==
    IF step = "keepcaps_on" THEN TRUE ELSE keep

\* The PR_SET_KEEPCAPS flag after a step that succeeded: set_keepcaps(true)
\* sets it, set_keepcaps(false) clears it, no other step touches it.
set_keepcaps(step, keep) ==
    IF step = "keepcaps_on" THEN TRUE
    ELSE IF step = "keepcaps_off" THEN FALSE
    ELSE keep

\* start_container after its hooks, one step at a time; nothing of it
\* without a process.
ChildStartContainer ==
    /\ childPc = "start_container" /\ proc = "alive"
    /\ IF ~HasProcess(childBundle) \/ Len(privLog) = Len(StartSteps)
       THEN /\ ChildStep("write_running", "none", 0)
            /\ UNCHANGED <<bounding, privLog, privErr, keepcaps>>
       ELSE LET step == StartSteps[Len(privLog) + 1] IN
            \/ /\ privLog' = Append(privLog, step)
               /\ bounding' = IF step = "bounding"
                               THEN BoundingStep(bounding, declared)
                               ELSE bounding
               /\ keepcaps' = set_keepcaps(step, keepcaps)
               /\ UNCHANGED <<childPc, childErr, childHook, privErr>>
            \/ /\ step \in Returned \cup Printed
               /\ step = "bounding" => declared # {}
               /\ IF OnFailure(step) = "go on"
                  THEN /\ privLog' = Append(privLog, step)
                       /\ privErr' = privErr \cup {step}
                       /\ UNCHANGED <<childPc, childErr, childHook>>
                  ELSE /\ ChildStep("error", "start_container failed", 0)
                       /\ UNCHANGED <<privLog, privErr>>
               /\ IF step = "bounding"
                  THEN bounding' \in BoundingStepErr(bounding, declared)
                  ELSE UNCHANGED bounding
               /\ UNCHANGED keepcaps
    /\ UNCHANGED <<ops, dir, file, sockVars, cliVars, childPid, childBundle,
                   cloneFlags, declared, envLog, pivotLog,
                   pivoted, rootArchive, rootMoved, procVars, hookVars>>
    /\ UNCHANGED fnVars

\* run_hook returns to the loop of the child.
ChildHookExit ==
    /\ childPc \in {"createContainer", "startContainer"} /\ proc = "alive"
    /\ hookProc.child \notin {"none", "running"}
    /\ IF run_hook(hookProc.child) # "ok"
       THEN /\ ChildStep("error", run_hook(hookProc.child), 0)
            /\ hookProc' = [hookProc EXCEPT !.child = "none"]
            /\ UNCHANGED hookLog
       ELSE IF childHook < Hooks(childBundle, childPc)
       THEN /\ ChildStep(childPc, "none", childHook + 1)
            /\ hookLog' = Append(hookLog, childPc)
            /\ \E s \in Spawned : hookProc' = [hookProc EXCEPT !.child = s]
       ELSE /\ ChildStep(IF childPc = "createContainer" THEN "pivot_rootfs"
                         ELSE "start_container", "none", 0)
            /\ hookProc' = [hookProc EXCEPT !.child = "none"]
            /\ UNCHANGED hookLog
    /\ UNCHANGED <<ops, dir, file, sockVars, cliVars, childPid, childBundle, privVars,
                   pivoted, rootArchive, rootMoved, procVars>>
    /\ UNCHANGED fnVars

\* The status messages with `creating` sent for the created phase too.
PhaseStatus_Repeated(pc) ==
    CASE pc = "write_creating" -> "creating"
      [] pc = "write_created" -> "creating"
      [] OTHER -> "running"

\* The status message that ends a phase.
PhaseStatus(pc) ==
    CASE pc = "write_creating" -> "creating"
      [] pc = "write_created" -> "created"
      [] OTHER -> "running"

\* The write of a phase without the listen after `creating`: the child goes
\* on to create_container at once.
ChildWrite_NoBarrier ==
    /\ childPc \in {"write_creating", "write_created", "write_running"}
    /\ proc = "alive"
    /\ SrvOpen
    /\ conns' = SrvWrite(Message(PhaseStatus(childPc), "none"))
    /\ CASE childPc = "write_creating" ->
              ChildEnterSlot("createContainer", "pivot_rootfs")
         [] childPc = "write_created" ->
              ChildStep("listen3", "none", 0) /\ UNCHANGED hookVars
         [] OTHER ->
              ChildStep("execvp", "none", 0) /\ UNCHANGED hookVars
    /\ UNCHANGED <<ops, dir, file, initSock, initPending, ctrSock, srvEpoch,
                   cliVars, childPid, childBundle, privVars, pivoted,
                   rootArchive, rootMoved, procVars>>
    /\ UNCHANGED fnVars

ChildWrite ==
    /\ childPc \in {"write_creating", "write_created", "write_running"}
    /\ proc = "alive"
    /\ IF SrvOpen
       THEN /\ conns' = SrvWrite(Message(PhaseStatus(childPc), "none"))
            /\ ChildStep(CASE childPc = "write_creating" -> "listen2"
                           [] childPc = "write_created" -> "listen3"
                           [] OTHER -> "execvp", "none", 0)
       ELSE /\ ChildStep("error", "failed to write to the client", 0)
            /\ UNCHANGED conns
    /\ UNCHANGED <<ops, dir, file, initSock, initPending, ctrSock, srvEpoch,
                   cliVars, childPid, childBundle, privVars, pivoted,
                   rootArchive, rootMoved, procVars, hookVars>>
    /\ UNCHANGED fnVars

\* execvp replaces the image (its sockets close), or fails; without a
\* process the pipeline bails.
ChildExecvp ==
    /\ childPc = "execvp" /\ proc = "alive"
    /\ \/ HasProcess(childBundle) /\ ChildStep("running", "none", 0)
       \/ HasProcess(childBundle) /\ ChildStep("error", "execvp failed", 0)
       \/ ~HasProcess(childBundle) /\ ChildStep("error", ProcessFieldMissing, 0)
    /\ UNCHANGED <<ops, dir, file, sockVars, cliVars, childPid, childBundle, privVars,
                   pivoted, rootArchive, rootMoved, procVars, hookVars>>
    /\ UNCHANGED fnVars

\* The status the error message of the child carries.
ErrorStatus == "stopped"

\* pipeline returned an error: the message with the status stopped and the
\* error is written; when the write fails, its unwrap panics.
ChildError ==
    /\ childPc = "error" /\ proc = "alive"
    /\ IF SrvOpen
       THEN /\ conns' = SrvWrite(Message(ErrorStatus, childErr))
            /\ ChildStep("exit", childErr, 0)
            /\ UNCHANGED <<proc, ctrSock, privLog, privErr, keepcaps, envLog,
                           pivotLog>>
       ELSE /\ ChildPanic
            /\ DropServer
            /\ Forget
            /\ UNCHANGED conns
    /\ UNCHANGED <<ops, dir, file, initSock, initPending, srvEpoch,
                   cliVars, childPid, childBundle, cloneFlags, declared,
                   bounding, pivoted, rootArchive, rootMoved, sigs, hookVars>>
    /\ UNCHANGED fnVars

\* exit(1), after the message: no destructor runs, container.sock stays.
ChildExit ==
    /\ childPc = "exit" /\ proc = "alive"
    /\ ChildStep("exited", childErr, 0)
    /\ proc' = "zombie"
    /\ Forget
    /\ UNCHANGED <<ops, dir, file, sockVars, cliVars, childPid, childBundle,
                   cloneFlags, declared, bounding, pivoted, rootArchive, rootMoved,
                   sigs, hookVars>>
    /\ UNCHANGED fnVars

----------------------------------------------------------------------------
\* The kernel and the rest of the host

\* The process is the init of a pid namespace: the kernel drops every
\* signal from outside that it has no handler for, but SIGKILL and SIGSTOP.
IsInit(flags) == "CLONE_NEWPID" \in flags

\* The process runs the program of the container: what it does with a
\* signal it can handle is its own choice. Before execvp it runs the code
\* of the runtime, which installs no handler.
OwnImage(pc) == pc = "running"

\* What the process can be after a signal has been delivered to it: SIGKILL
\* ends it, SIGSTOP stops it, any other signal ends a process that runs the
\* runtime unless it is the init of a pid namespace, and ends the program of
\* the container or not. The other signals of kill can be handled or
\* ignored, and their default action ends the process.
AfterSignal(p, sig, init, image) ==
    CASE sig = "SIGKILL" /\ p \in {"alive", "stopped"} -> {"zombie"}
      [] sig = "SIGSTOP" /\ p = "alive" -> {"stopped"}
      [] sig \in {"SIGHUP", "SIGINT", "SIGTERM", "SIGUSR1", "SIGUSR2"}
         /\ p = "alive" ->
            IF image THEN {"alive", "zombie"}
            ELSE IF init THEN {"alive"}
            ELSE {"zombie"}
      [] OTHER -> {p}

\* A pending signal is delivered: at once to a process that runs; a stopped
\* process takes SIGKILL and SIGSTOP only, the others wait for its SIGCONT.
DeliverSignal ==
    /\ \E s \in sigs :
        /\ s[1] = childPid
        /\ \/ proc = "alive"
           \/ proc = "stopped" /\ s[2] \in {"SIGKILL", "SIGSTOP"}
        /\ proc' \in AfterSignal(proc, s[2], IsInit(cloneFlags), OwnImage(childPc))
        /\ sigs' = sigs \ {s}
    /\ IF proc' = "zombie"
       THEN /\ ChildStep("exited", childErr, 0)
            /\ privLog' = <<>>
            /\ privErr' = {}
            /\ keepcaps' = FALSE
            /\ envLog' = <<>>
            /\ pivotLog' = <<>>
       ELSE UNCHANGED <<childPc, childErr, childHook, privLog, privErr, keepcaps,
                        envLog, pivotLog>>
    /\ UNCHANGED <<ops, dir, file, sockVars, cliVars, childPid, childBundle,
                   cloneFlags, declared, bounding, pivoted, rootArchive, rootMoved,
                   hookVars>>
    /\ UNCHANGED fnVars

\* A stopped process is continued by a SIGCONT from outside the runtime.
ProcContinue ==
    /\ proc = "stopped"
    /\ proc' = "alive"
    /\ UNCHANGED <<ops, dir, file, sockVars, cliVars, childVars, sigs, hookVars>>
    /\ UNCHANGED fnVars

\* The container process ends by itself.
ProcExit ==
    /\ childPc = "running" /\ proc = "alive"
    /\ proc' = "zombie"
    /\ ChildStep("exited", childErr, 0)
    /\ privLog' = <<>>
    /\ privErr' = {}
    /\ keepcaps' = FALSE
    /\ envLog' = <<>>
    /\ pivotLog' = <<>>
    /\ UNCHANGED <<ops, dir, file, sockVars, cliVars, childPid, childBundle,
                   cloneFlags, declared, bounding, pivoted, rootArchive, rootMoved,
                   sigs, hookVars>>
    /\ UNCHANGED fnVars

\* The zombie is reaped once the create that cloned it has returned.
ProcReap ==
    /\ proc = "zombie"
    /\ ~(cliVerb = "create" /\ cliPc # "done")
    /\ proc' = "gone"
    /\ sigs' = {}
    /\ UNCHANGED <<ops, dir, file, sockVars, cliVars, childVars, hookVars>>
    /\ UNCHANGED fnVars

\* A hook process ends, by itself or by a signal of its surroundings; the
\* runtime has no part in it: run_hook waits without a limit.
HookEnds(who, o) ==
    /\ hookProc[who] = "running"
    /\ hookProc' = [hookProc EXCEPT ![who] = o]
    /\ UNCHANGED <<ops, dir, file, sockVars, cliVars, childVars, procVars, hookLog>>
    /\ UNCHANGED fnVars

----------------------------------------------------------------------------
Next ==
    \/ \E b \in Bundles : CreateBegin(b)
    \/ CreateFork
    \/ CreateInitListen
    \/ CliConnect
    \/ CreateRead1
    \/ CreateRead2
    \/ CliHookExit
    \/ StartBegin
    \/ StartRead
    \/ StateVerb
    \/ \E name \in SignalNames : KillBegin(name)
    \/ KillRefresh
    \/ DeleteBegin
    \/ MovedVerb
    \/ ChildBind
    \/ ChildConnectInit
    \/ ChildListen
    \/ ChildInitEnvironment
    \/ ChildPivotRootfs
    \/ ChildSetSysctl
    \/ ChildStartContainer
    \/ ChildHookExit
    \/ ChildWrite
    \/ ChildExecvp
    \/ ChildError
    \/ ChildExit
    \/ DeliverSignal
    \/ ProcContinue
    \/ ProcExit
    \/ ProcReap
    \/ \E who \in {"cli", "child"}, o \in Exits : HookEnds(who, o)

Spec == Init /\ [][Next]_vars

\* The runtime goes on whenever it can: a run_hook whose hook has ended
\* returns. Nothing makes a hook end.
SpecFair == Spec /\ WF_vars(CliHookExit) /\ WF_vars(ChildHookExit)

----------------------------------------------------------------------------
\* The bounding step by itself, on every bounding set a process can have and
\* every set a config can declare.

InitCap ==
    /\ InitProgram
    /\ NoInput
    /\ dir = FALSE
    /\ file = NoFile
    /\ cliSt = NoFile
    /\ declared \in {{}} \cup {{c} : c \in SUBSET Caps}
    /\ bounding \in SUBSET Caps

SetCapBounding ==
    /\ childPc = "none" /\ privLog = <<>> /\ privErr = {}
    /\ \/ /\ bounding' = BoundingStep(bounding, declared)
          /\ privLog' = <<"bounding">>
          /\ UNCHANGED privErr
       \/ /\ declared # {}
          /\ bounding' \in BoundingStepErr(bounding, declared)
          /\ privErr' = {"bounding"}
          /\ UNCHANGED privLog
    /\ UNCHANGED <<ops, dir, file, sockVars, cliVars, childPc, childPid,
                   childBundle, childHook, childErr, pivoted, rootArchive, rootMoved,
                   cloneFlags,
                   declared, keepcaps, envLog, pivotLog, procVars, hookVars>>
    /\ UNCHANGED fnVars

SpecCap == InitCap /\ [][SetCapBounding]_vars

----------------------------------------------------------------------------
\* State::refresh by itself, on every state a load can return and every
\* result of inspect_process.

\* Pids a state holds: none yet, or the pid of a process.
Pids == {-1, 1, 2}

AnnotationMaps ==
    {{}, {<<"org.example.key", "value">>},
     {<<"org.example.key", "value">>, <<"org.example.other", "more">>}}

States ==
    [ociVersion : {OCI_VERSION}, id : {Id}, bundle : {"full", "noproc"},
     status : Statuses, pid : Pids,
     annotations : {{}} \cup {{m} : m \in AnnotationMaps}]

InitRefresh ==
    /\ InitProgram
    /\ dir = TRUE
    /\ file \in States
    /\ cliSt = file
    \* the process states procfs tells apart, or no process to read
    /\ stat \in {"R", "S", "D", "Z", "T", "t", "X", "K", "W", "P", "I",
                 "unreadable"}
    /\ sent = NoMessage
    /\ options = <<>>
    /\ sock = NoSocket(<<>>, "server")
    /\ declared = {}
    /\ bounding = {}

\* state.refresh() on the state loaded from the file.
RefreshState ==
    /\ cliPc = "done"
    /\ cliSt' = Refresh(cliSt, stat)
    /\ cliPc' = "refreshed"
    /\ UNCHANGED <<ops, dir, file, sockVars, cliVerb, cliArg, cliPid, cliHook,
                   cliResult, stdout, failed, prior, childVars, procVars,
                   hookVars, fnVars>>

SpecRefresh == InitRefresh /\ [][RefreshState]_vars

----------------------------------------------------------------------------
\* The sockets by themselves (src/socket.rs): a server, one client, and a
\* String written by one end and read by the other. A String is the
\* sequence of its characters.

MaxText == 3

Newline == "\n"

\* The String and the end that writes it are the inputs.
InitSocket ==
    /\ InitProgram
    /\ stat = "none"
    /\ sent = NoMessage
    /\ options = <<>>
    /\ sock \in {NoSocket(text, writer) :
                   text \in UNION {[1..n -> {"a", Newline}] : n \in 0..MaxText},
                   writer \in {"server", "client"}}
    /\ dir = FALSE
    /\ file = NoFile
    /\ cliSt = NoFile
    /\ declared = {}
    /\ bounding = {}

\* The index of the first newline of the bytes, 0 when there is none.
FirstNewline(bytes) ==
    IF \E i \in 1..Len(bytes) : bytes[i] = Newline
    THEN CHOOSE i \in 1..Len(bytes) :
            /\ bytes[i] = Newline
            /\ \A j \in 1..(i - 1) : bytes[j] # Newline
    ELSE 0

\* read_line that leaves the newline out of the String it returns.
read_line_Trimmed(bytes) ==
    IF FirstNewline(bytes) = 0 THEN bytes
    ELSE SubSeq(bytes, 1, FirstNewline(bytes) - 1)

\* BufReader::read_line on the bytes of the stream: the bytes up to the
\* first newline, the newline included, or all of them at the end of the
\* stream.
read_line(bytes) ==
    IF FirstNewline(bytes) = 0 THEN bytes
    ELSE SubSeq(bytes, 1, FirstNewline(bytes))

Others == <<ops, dir, file, sockVars, cliVars, childVars, procVars, hookVars,
           stat, json, sent, wire, received, options, mounted>>

\* SocketServer::bind
SocketBind ==
    /\ ~sock.bound /\ sock.server = "alive"
    /\ sock' = [sock EXCEPT !.bound = TRUE]
    /\ UNCHANGED Others

\* SocketClient::connect: it returns once the connection is queued at the
\* listener, accepted or not.
SocketConnect ==
    /\ sock.bound /\ sock.client = "none" /\ sock.server = "alive"
    /\ sock' = [sock EXCEPT !.client = "open", !.pending = 1]
    /\ UNCHANGED Others

\* SocketServer::listen: accept blocks until a connection is queued.
SocketListen ==
    /\ sock.bound /\ sock.server = "alive" /\ sock.stream = "None"
    /\ sock.pending > 0
    /\ sock' = [sock EXCEPT !.pending = 0, !.stream = "Some"]
    /\ UNCHANGED Others

\* SocketServer::write on the accepted stream.
SocketServerWrite ==
    /\ sock.writer = "server" /\ ~sock.written
    /\ sock.stream = "Some" /\ sock.server = "alive" /\ sock.client = "open"
    /\ sock' = [sock EXCEPT !.toClient = @ \o sock.text, !.written = TRUE]
    /\ UNCHANGED Others

\* SocketClient::write: the bytes are queued for the server, which may not
\* have accepted yet.
SocketClientWrite ==
    /\ sock.writer = "client" /\ ~sock.written
    /\ sock.client = "open" /\ sock.server = "alive"
    /\ sock' = [sock EXCEPT !.toServer = @ \o sock.text, !.written = TRUE]
    /\ UNCHANGED Others

\* SocketServer::read: read_line returns at a newline or at the end of the
\* stream.
SocketServerRead ==
    /\ sock.writer = "client" /\ sock.got = {}
    /\ sock.stream = "Some" /\ sock.server = "alive"
    /\ FirstNewline(sock.toServer) > 0 \/ sock.client = "closed"
    /\ sock' = [sock EXCEPT !.got = {read_line(sock.toServer)}, !.toServer = <<>>]
    /\ UNCHANGED Others

\* SocketClient::read
SocketClientRead ==
    /\ sock.writer = "server" /\ sock.got = {}
    /\ sock.client = "open"
    /\ FirstNewline(sock.toClient) > 0 \/ sock.server = "dropped"
    /\ sock' = [sock EXCEPT !.got = {read_line(sock.toClient)}, !.toClient = <<>>]
    /\ UNCHANGED Others

\* The end that has done its part is dropped: its stream closes, and the
\* drop of the server removes the file of the socket.
SocketDrop ==
    /\ \/ /\ sock.server = "alive" /\ sock.bound
          /\ IF sock.writer = "server" THEN sock.written ELSE sock.got # {}
          /\ sock' = [sock EXCEPT !.server = "dropped", !.bound = FALSE]
       \/ /\ sock.client = "open"
          /\ IF sock.writer = "client" THEN sock.written ELSE sock.got # {}
          /\ sock' = [sock EXCEPT !.client = "closed"]
    /\ UNCHANGED Others

NextSocket ==
    \/ SocketBind
    \/ SocketConnect
    \/ SocketListen
    \/ SocketServerWrite
    \/ SocketClientWrite
    \/ SocketServerRead
    \/ SocketClientRead
    \/ SocketDrop

SpecSocket == InitSocket /\ [][NextSocket]_vars

----------------------------------------------------------------------------
\* The runtime with the child of src/container.rs, the fork_container that
\* main.rs declares (mod container) and cli.rs imports: the same CLI, the
\* same sockets, the same kernel, and a child that matches on every error
\* where it happens.

\* container.rs 46-138, one call at a time, in the order of EnvPlan: the
\* namespaces, the mounts of the root, the mounts, the devices, the default
\* devices, the default symlinks and the hostname. A call succeeds, and
\* after the last one the child goes on to write creating. A failure the
\* code matches on (open, setns, mount_rootfs, oci_mount, create_device,
\* create_default_symlink) writes a message with the status creating and
\* the error, and exit(1) follows; a failure it unwraps (a default device,
\* sethostname, the write of the message) panics: nothing is written and
\* the unwinding drops the server.
LegacyInitEnvironment ==
    /\ childPc = "init_environment" /\ proc = "alive"
    /\ Len(envLog) < Len(EnvPlan(childBundle))
    /\ LET call == EnvPlan(childBundle)[Len(envLog) + 1]
           unwrapped == call[1] \in {"create_default_device", "set_hostname"}
           err == "container error: failed to mount the rootfs"
       IN
       \/ /\ envLog' = Append(envLog, call)
          /\ IF Len(envLog') = Len(EnvPlan(childBundle))
             THEN ChildStep("write_creating", "none", 0)
             ELSE UNCHANGED <<childPc, childErr, childHook>>
          /\ UNCHANGED <<conns, proc, ctrSock, privLog, privErr, keepcaps,
                         pivotLog>>
       \/ /\ ~unwrapped /\ SrvOpen
          /\ conns' = SrvWrite(Message("creating", err))
          /\ ChildStep("exit", err, 0)
          /\ UNCHANGED <<proc, ctrSock, privLog, privErr, keepcaps, envLog,
                         pivotLog>>
       \/ /\ unwrapped \/ ~SrvOpen
          /\ ChildPanic
          /\ DropServer
          /\ Forget
          /\ UNCHANGED conns
    /\ UNCHANGED <<ops, dir, file, initSock, initPending, srvEpoch,
                   cliVars, childPid, childBundle, cloneFlags, declared,
                   bounding, pivoted, rootArchive, rootMoved, sigs, hookVars>>
    /\ UNCHANGED fnVars

\* The write of creating (container.rs 141-146), of created (201-206) and
\* of running (393-398), each with an unwrap: the message is written, or
\* the unwrap panics.
LegacyWrite ==
    /\ childPc \in {"write_creating", "write_created", "write_running"}
    /\ proc = "alive"
    /\ IF SrvOpen
       THEN /\ conns' = SrvWrite(Message(PhaseStatus(childPc), "none"))
            /\ ChildStep(CASE childPc = "write_creating" -> "listen2"
                           [] childPc = "write_created" -> "listen3"
                           [] OTHER -> "execvp", "none", 0)
            /\ UNCHANGED <<proc, ctrSock, privLog, privErr, keepcaps, envLog,
                           pivotLog>>
       ELSE /\ ChildPanic
            /\ DropServer
            /\ Forget
            /\ UNCHANGED conns
    /\ UNCHANGED <<ops, dir, file, initSock, initPending, srvEpoch,
                   cliVars, childPid, childBundle, cloneFlags, declared,
                   bounding, pivoted, rootArchive, rootMoved, sigs, hookVars>>
    /\ UNCHANGED fnVars

\* The steps of the start phase after its hooks, in the order of
\* container.rs 227-391; it has no umask.
LegacyStartSteps ==
    <<"env", "rlimits", "oom_score_adj", "bounding", "keepcaps_on", "setgid",
      "setgroups", "setuid", "keepcaps_off", "effective", "permitted",
      "inheritable", "ambient", "chdir">>

\* The steps whose error the legacy child prints with println! and goes on
\* from: the five capability sets, the bounding set among them.
LegacyPrinted ==
    {"bounding", "effective", "permitted", "inheritable", "ambient"}

\* The steps whose error it sends and exits on.
LegacySent ==
    {"rlimits", "oom_score_adj", "keepcaps_on", "setgid", "setgroups",
     "setuid", "keepcaps_off", "chdir"}

\* The error a step of LegacySent gives.
LegacyStepError(step) ==
    CASE step = "rlimits" -> "failed to set the rlimit"
      [] step = "oom_score_adj" -> "failed to set oom_score_adj"
      [] step = "keepcaps_on" -> "failed to set PR_SET_KEEPCAPS to true"
      [] step = "setgid" -> "failed to set gid"
      [] step = "setgroups" -> "failed to set additional gids"
      [] step = "setuid" -> "failed to set uid"
      [] step = "keepcaps_off" -> "failed to set PR_SET_KEEPCAPS to false"
      [] OTHER -> "failed to change the working directory"

\* The start phase after its hooks (container.rs 227-421), one step at a
\* time. Without a process the child writes the message cli.rs looks for,
\* stopped with the error of the missing process, and exit(1) follows.
LegacyStartContainer ==
    /\ childPc = "start_container" /\ proc = "alive"
    /\ IF ~HasProcess(childBundle)
       THEN /\ IF SrvOpen
               THEN /\ conns' = SrvWrite(Message("stopped", ProcessMissingShim))
                    /\ ChildStep("exit", ProcessMissingShim, 0)
                    /\ UNCHANGED <<proc, ctrSock, privLog, privErr, keepcaps,
                                   envLog, pivotLog>>
               ELSE /\ ChildPanic
                    /\ DropServer
                    /\ Forget
                    /\ UNCHANGED conns
            /\ UNCHANGED bounding
       ELSE /\ IF Len(privLog) = Len(LegacyStartSteps)
               THEN /\ ChildStep("write_running", "none", 0)
                    /\ UNCHANGED <<bounding, privLog, privErr, keepcaps>>
               ELSE LET step == LegacyStartSteps[Len(privLog) + 1] IN
                    \/ /\ privLog' = Append(privLog, step)
                       /\ bounding' = IF step = "bounding"
                                       THEN BoundingStep(bounding, declared)
                                       ELSE bounding
                       /\ keepcaps' = set_keepcaps(step, keepcaps)
                       /\ UNCHANGED <<childPc, childErr, childHook, privErr>>
                    \/ /\ step \in LegacyPrinted
                       /\ step = "bounding" => declared # {}
                       /\ privLog' = Append(privLog, step)
                       /\ privErr' = privErr \cup {step}
                       /\ IF step = "bounding"
                          THEN bounding' \in BoundingStepErr(bounding, declared)
                          ELSE UNCHANGED bounding
                       /\ UNCHANGED <<childPc, childErr, childHook, keepcaps>>
                    \/ /\ step \in LegacySent
                       /\ ChildStep("error", LegacyStepError(step), 0)
                       /\ UNCHANGED <<privLog, privErr, bounding, keepcaps>>
            /\ UNCHANGED <<proc, ctrSock, conns, envLog, pivotLog>>
    /\ UNCHANGED <<ops, dir, file, initSock, initPending, srvEpoch,
                   cliVars, childPid, childBundle, cloneFlags, declared,
                   pivoted, rootArchive, rootMoved, sigs, hookVars>>
    /\ UNCHANGED fnVars

\* execvp after the message running (container.rs 400-410): the image is
\* replaced, or execvp returns and its error is sent.
LegacyExecvp ==
    /\ childPc = "execvp" /\ proc = "alive"
    /\ \/ ChildStep("running", "none", 0)
       \/ ChildStep("error", "execvp failed", 0)
    /\ UNCHANGED <<ops, dir, file, sockVars, cliVars, childPid, childBundle,
                   privVars, pivoted, rootArchive, rootMoved, procVars,
                   hookVars>>
    /\ UNCHANGED fnVars

\* The errors the legacy child sends as they are; every other one goes
\* under "container error: " (the hooks, pivot_rootfs, the rlimits, execvp).
LegacyText(err) ==
    LET own == {"failed to set the sysctl"}
               \cup {LegacyStepError(s) : s \in LegacySent \ {"rlimits"}}
    IN IF err \in own THEN err ELSE "container error: " \o err

\* The status the message of an error carries: creating for pivot_rootfs
\* (container.rs 170), stopped for every error behind it and for the hooks.
LegacyErrorStatus(err) ==
    IF err = "failed to pivot the root" THEN "creating" ELSE "stopped"

\* A step behind the second listen has failed: the message with the error
\* is written, with an unwrap, and exit(1) follows.
LegacyError ==
    /\ childPc = "error" /\ proc = "alive"
    /\ IF SrvOpen
       THEN /\ conns' = SrvWrite(Message(LegacyErrorStatus(childErr),
                                         LegacyText(childErr)))
            /\ ChildStep("exit", LegacyText(childErr), 0)
            /\ UNCHANGED <<proc, ctrSock, privLog, privErr, keepcaps, envLog,
                           pivotLog>>
       ELSE /\ ChildPanic
            /\ DropServer
            /\ Forget
            /\ UNCHANGED conns
    /\ UNCHANGED <<ops, dir, file, initSock, initPending, srvEpoch,
                   cliVars, childPid, childBundle, cloneFlags, declared,
                   bounding, pivoted, rootArchive, rootMoved, sigs, hookVars>>
    /\ UNCHANGED fnVars

NextLegacy ==
    \/ \E b \in Bundles : CreateBegin(b)
    \/ CreateFork
    \/ CreateInitListen
    \/ CliConnect
    \/ CreateRead1
    \/ CreateRead2
    \/ CliHookExit
    \/ StartBegin
    \/ StartRead
    \/ StateVerb
    \/ \E name \in SignalNames : KillBegin(name)
    \/ KillRefresh
    \/ DeleteBegin
    \/ MovedVerb
    \/ ChildBind
    \/ ChildConnectInit
    \/ ChildListen
    \/ LegacyInitEnvironment
    \/ ChildHookExit
    \/ ChildPivotRootfs
    \/ ChildSetSysctl
    \/ LegacyWrite
    \/ LegacyStartContainer
    \/ LegacyExecvp
    \/ LegacyError
    \/ ChildExit
    \/ DeliverSignal
    \/ ProcContinue
    \/ ProcExit
    \/ ProcReap
    \/ \E who \in {"cli", "child"}, o \in Exits : HookEnds(who, o)

SpecLegacy == Init /\ [][NextLegacy]_vars

----------------------------------------------------------------------------
\* mount_to_msflags by itself, on every list of options up to a length.

\* Options a mount entry lists.
MaxOptions == 3

InitMount ==
    /\ InitProgram
    /\ dir = FALSE
    /\ file = NoFile
    /\ cliSt = NoFile
    /\ stat = "none"
    /\ sent = NoMessage
    \* lists of the options of the eight pairs, two more with an arm and
    \* two without
    /\ options \in UNION {[1..n ->
           {"ro", "rw", "suid", "nosuid", "dev", "nodev", "exec", "noexec",
            "sync", "async", "mand", "nomand", "atime", "noatime", "diratime",
            "nodiratime", "defaults", "rbind", "size=64k", "mode=755"}] :
           n \in 0..MaxOptions}
    /\ sock = NoSocket(<<>>, "server")
    /\ declared = {}
    /\ bounding = {}

\* custom_mount: the options of the entry become the flags and the data of
\* the mount call.
CustomMount ==
    /\ mounted = NotMounted
    /\ mounted' = mount_to_msflags(options)
    /\ UNCHANGED <<ops, dir, file, sockVars, cliVars, childVars, procVars,
                   hookVars, stat, json, sent, wire, received, options, sock>>

SpecMount == InitMount /\ [][CustomMount]_vars

----------------------------------------------------------------------------
\* persist and load, and the write and read of a socket, by themselves, on
\* every state and every message.

InitJson ==
    /\ InitProgram
    /\ dir = TRUE
    /\ file = NoFile
    /\ cliSt \in States
    /\ stat = "none"
    /\ sent \in {Message(status, error) :
                   status \in Statuses,
                   error \in {"none", "failed to run the hook",
                              ProcessFieldMissing}}
    /\ options = <<>>
    /\ sock = NoSocket(<<>>, "server")
    /\ declared = {}
    /\ bounding = {}

\* state.persist(): the state is serialised and written to state.json.
Persist ==
    /\ json = JNull
    /\ json' \in to_string(cliSt)
    /\ UNCHANGED <<ops, dir, file, sockVars, cliVars, childVars, procVars,
                   hookVars, stat, sent, wire, received, options, mounted, sock>>

\* State::load: state.json is read and deserialised.
Load ==
    /\ json # JNull /\ file = NoFile
    /\ file' = from_str(json)
    /\ UNCHANGED <<ops, dir, sockVars, cliVars, childVars, procVars, hookVars,
                   fnVars>>

\* write of a socket: the message is serialised and sent.
SocketWrite ==
    /\ wire = JNull
    /\ wire' = MessageToJson(sent)
    /\ UNCHANGED <<ops, dir, file, sockVars, cliVars, childVars, procVars,
                   hookVars, stat, json, sent, received, options, mounted, sock>>

\* read of a socket: the line is read and deserialised.
SocketRead ==
    /\ wire # JNull /\ received = NoMessage
    /\ received' = MessageFromJson(wire)
    /\ UNCHANGED <<ops, dir, file, sockVars, cliVars, childVars, procVars,
                   hookVars, stat, json, sent, wire, options, mounted, sock>>

NextJson == Persist \/ Load \/ SocketWrite \/ SocketRead

SpecJson == InitJson /\ [][NextJson]_vars

----------------------------------------------------------------------------
\* Hook ordering and the rendezvous

SlotIndex(slot) == CHOOSE i \in 1..Len(Slots) : Slots[i] = slot

Count(log, slot) == Cardinality({i \in 1..Len(log) : log[i] = slot})

\* A hook process spawned by the CLI, or by the child, has not exited.
CliInHook == cliPc \in {"createRuntime", "prestart", "poststart", "poststop"}
ChildInHook == childPc \in {"createContainer", "startContainer"}

\* The child is blocked in accept: it is at a listen and no connection waits.
ChildBlockedAt(pc) == childPc = pc /\ proc = "alive" /\ srvEpoch = Len(conns)

\* The phases of the pipeline the child works in.
InInitPhase == childPc \in {"init_environment", "write_creating"}
InCreatePhase ==
    childPc \in {"createContainer", "pivot_rootfs", "set_sysctl", "write_created"}
InStartPhase ==
    childPc \in {"startContainer", "start_container", "write_running", "execvp"}

\* The messages the child has written, connection by connection.
Expected == <<"creating", "created", "running">>

\* C1: in a run in which no verb fails, the hooks begin in the order
\* createRuntime, createContainer, prestart, startContainer, poststart,
\* poststop, never two at a time, each slot only after all hooks of the
\* slots before it; createRuntime and createContainer hooks run before
\* pivot_root, startContainer hooks after it and before execvp; and the run
\* create, start, exit, state, delete runs the hooks of all six slots.
C1_HookOrder ==
    ~failed =>
      /\ \A i, j \in 1..Len(hookLog) :
            i < j => SlotIndex(hookLog[i]) <= SlotIndex(hookLog[j])
      /\ ~(CliInHook /\ ChildInHook)
      /\ \A i \in 1..Len(hookLog) : \A k \in 1..Len(Slots) :
            (k < SlotIndex(hookLog[i]) /\ Hooks(childBundle, Slots[k]) > 0
               /\ Slots[k] # hookLog[i])
            => \/ Count(hookLog, Slots[k]) = Hooks(childBundle, Slots[k])
               \/ (Slots[k] \in {"prestart", "startContainer", "poststart"}
                     /\ Count(hookLog, Slots[k]) = 0)
      /\ (cliPc = "createRuntime" \/ childPc = "createContainer") => ~pivoted
      /\ (pivoted /\ Hooks(childBundle, "createContainer") > 0) =>
            /\ Count(hookLog, "createRuntime") = Hooks(childBundle, "createRuntime")
            /\ Count(hookLog, "createContainer") = Hooks(childBundle, "createContainer")
      /\ Count(hookLog, "startContainer") > 0 => pivoted /\ childPc # "bind"
      /\ (childPc \in {"execvp", "running"}) =>
            Count(hookLog, "startContainer") = Hooks(childBundle, "startContainer")
      /\ (cliVerb = "delete" /\ cliPc = "done" /\ cliResult = "ok"
            /\ Count(hookLog, "poststart") > 0) =>
            \A k \in 1..Len(Slots) :
               Count(hookLog, Slots[k]) = Hooks(childBundle, Slots[k])

\* The run of C1 has happened: every slot's hooks ran, delete returned.
C1_Witness ==
    /\ ~failed
    /\ cliVerb = "delete" /\ cliPc = "done" /\ cliResult = "ok"
    /\ \A k \in 1..Len(Slots) : Count(hookLog, Slots[k]) = Hooks("full", Slots[k])
    /\ HooksPerSlot > 0

\* C2 as stated: while the CLI waits for a createRuntime hook the child is
\* blocked in the accept before create_container, while it waits for a
\* prestart hook the child is blocked in the accept before start_container,
\* and the child works in a phase only while the CLI waits in the read after
\* its connect.
C2_ChildBlockedDuringHooks ==
    /\ cliPc = "createRuntime" => ChildBlockedAt("listen2")
    /\ cliPc = "prestart" => ChildBlockedAt("listen3")
    /\ InInitPhase => cliVerb = "create" /\ cliPc = "read1"
    /\ InCreatePhase => cliVerb = "create" /\ cliPc = "read2"
    /\ (InStartPhase /\ childPc # "execvp") => cliVerb = "start" /\ cliPc = "read3"

\* C2 amended: the same, except that during the prestart hooks of a start
\* repeated after the child failed in its start phase the child is past its
\* error message: about to exit, or gone.
C2_NoParallelPhases ==
    /\ cliPc = "createRuntime" => ChildBlockedAt("listen2")
    /\ cliPc = "prestart" =>
          \/ ChildBlockedAt("listen3")
          \/ (failed /\ childPc \in {"exit", "exited"} /\ childErr # "none"
                /\ Len(conns) >= Len(Expected))
    /\ InInitPhase => cliVerb = "create" /\ cliPc = "read1"
    /\ InCreatePhase => cliVerb = "create" /\ cliPc = "read2"
    /\ (InStartPhase /\ childPc # "execvp") => cliVerb = "start" /\ cliPc = "read3"

\* The CLI waits for a prestart hook and the child is blocked in accept.
C2_Witness == cliPc = "prestart" /\ ChildBlockedAt("listen3") /\ cliHook = 1

\* C3: while the child has not failed, connection N carries at most one
\* message, the N-th of creating, created, running, without error; the CLI
\* has read and shut down every connection before the last one; the child
\* has accepted a connection before it writes on it; and when the child
\* reaches execvp all three messages have been written.
C3_MessageOrder ==
    childErr = "none" =>
      /\ Len(conns) <= Len(Expected)
      /\ \A n \in 1..Len(conns) :
            /\ Len(conns[n].buf) <= 1
            /\ conns[n].buf # <<>> =>
                  /\ conns[n].buf[1] = Message(Expected[n], "none")
                  /\ n <= srvEpoch
            /\ n < Len(conns) => conns[n].buf # <<>> /\ ~conns[n].open
      /\ childPc \in {"execvp", "running"} =>
            /\ Len(conns) = Len(Expected)
            /\ conns[Len(Expected)].buf # <<>>

\* The container process runs and the CLI has read all three messages.
C3_Witness ==
    /\ childPc = "running" /\ childErr = "none"
    /\ Len(conns) = Len(Expected)
    /\ \A n \in 1..Len(conns) : conns[n].buf # <<>> /\ ~conns[n].open

\* C4: when create has returned success the state file holds status created
\* and the pid of the cloned child, which is positive; a state verb run
\* right after it prints a status among created, running, stopped and a
\* positive pid.
C4_CreateThenState ==
    /\ (cliVerb = "create" /\ cliPc = "done" /\ cliResult = "ok") =>
          /\ file.status = "created"
          /\ file.pid = childPid /\ file.pid > 0
          /\ file.bundle = cliArg
    /\ (cliVerb = "state" /\ cliPc = "done" /\ prior = <<"create", "ok">>) =>
          /\ cliResult = "ok"
          /\ stdout.status \in {"created", "running", "stopped"}
          /\ stdout.pid > 0
          /\ stdout = file

\* A state verb has printed the state of a container just created.
C4_Witness ==
    /\ cliVerb = "state" /\ cliPc = "done" /\ prior = <<"create", "ok">>
    /\ stdout.status = "running" /\ stdout.pid = childPid

----------------------------------------------------------------------------
\* Removal after a failure

\* Calls of state, kill and delete tried after a failure.
MaxCalls == 3

\* The state file and the process after one more call of state or kill, the
\* signal of kill delivered before or after its refresh.
StateCalls(w) ==
    {[st |-> Refresh(w.st, ps), p |-> w.p] :
        ps \in (IF w.st.pid # childPid THEN {"unreadable"} ELSE ProcStat(w.p))}

KillCalls(w) ==
    IF w.st.status \notin {"created", "running"}
         \/ w.st.pid # childPid \/ w.p \notin {"alive", "stopped", "zombie"}
    THEN {w}
    ELSE UNION {
           UNION { {[st |-> Refresh(w.st, ps), p |-> after] :
                       ps \in ProcStat(w.p) \cup ProcStat(after)} :
                   after \in {w.p} \cup AfterSignal(w.p, SignalOf(name),
                                                   IsInit(cloneFlags),
                                                   OwnImage(childPc)) }
           \cup
           UNION { {[st |-> Refresh(w.st, ps), p |-> after] :
                       ps \in Woken(w.p, SignalOf(name))} :
                   after \in AfterSignal(w.p, SignalOf(name),
                                         IsInit(cloneFlags),
                                         OwnImage(childPc)) } :
           name \in SignalNames }

\* Some sequence of at most n calls of state and kill leaves a state in which
\* delete passes its check and removes the directory.
RECURSIVE Removable(_, _)
Removable(w, n) ==
    \/ w.st.status = "stopped"
    \/ /\ n > 0
       /\ \E v \in StateCalls(w) \cup KillCalls(w) : Removable(v, n - 1)

\* C5 as stated: after a verb has failed and left the container directory,
\* some sequence of state, kill and delete calls ends with delete removing
\* the directory.
C5_RemovableAfterFailure ==
    (cliPc = "done" /\ cliResult \notin {"ok", "none"} /\ dir) =>
        Removable([st |-> file, p |-> proc], MaxCalls)

\* C6 as stated: once the state file holds status stopped it holds stopped
\* until delete removes it.
C6_StoppedIsFinal ==
    [][file.status = "stopped" => file'.status \in {"stopped", "absent"}]_vars

\* The changes of the persisted status the lifecycle allows.
Allowed ==
    {<<"creating", "created">>, <<"created", "running">>,
     <<"running", "stopped">>, <<"creating", "stopped">>,
     <<"created", "stopped">>}

\* C7 as stated: every change of the status in the state file is an allowed
\* transition.
C7_AllowedTransitions ==
    [][(file.status \in Statuses /\ file'.status \in Statuses
          /\ file'.status # file.status)
       => <<file.status, file'.status>> \in Allowed]_vars

\* C8: in every state file the pid is positive exactly when the status is
\* created, running or stopped, and -1 exactly when it is creating.
C8_PidValidity ==
    file # NoFile =>
      /\ file.status \in Statuses
      /\ file.pid > 0 <=> file.status \in {"created", "running", "stopped"}
      /\ file.pid = -1 <=> file.status = "creating"

\* A state verb has refreshed and persisted the state of a container whose
\* process is gone.
C8_Witness ==
    /\ cliVerb = "state" /\ cliPc = "done" /\ cliResult = "ok"
    /\ file.status = "stopped" /\ file.pid = childPid /\ proc = "gone"

\* What a failing create must leave alone: the directory, the state file,
\* the sockets, the container process and the hooks.
Container == <<dir, file, sockVars, childVars, procVars, hookLog>>

\* C9: a create invoked while the container directory exists returns an
\* error at once and changes neither the state file, the sockets, the
\* container process nor the hooks run.
C9_CreateExisting ==
    [][(dir /\ ops' = ops + 1 /\ cliVerb' = "create")
       => (/\ cliPc' = "done"
           /\ cliResult' \notin {"ok", "none"}
           /\ UNCHANGED Container)]_vars

\* A create has failed on an existing container, whose child still waits
\* for start.
C9_Witness ==
    /\ cliVerb = "create" /\ cliPc = "done"
    /\ cliResult = "the container exists"
    /\ dir /\ file.status = "created" /\ ChildBlockedAt("listen3")

\* The step is not the invocation of a verb whose paths resolve in a root
\* that a pivot_root has moved: the verb sees the bundle and the container
\* directory that are there.
HostView == ~MovedVerb

\* C10: a create whose bundle path does not exist or whose config.json does
\* not load returns an error at once, with no directory or state file
\* created and no child cloned.
C10_CreateBadBundle ==
    [][(ops' = ops + 1 /\ cliVerb' = "create" /\ HostView
          /\ (~BundleExists(cliArg') \/ ~SpecLoad(cliArg')))
       => (/\ cliPc' = "done"
           /\ cliResult' = (IF BundleExists(cliArg')
                            THEN "failed to load the bundle configuration"
                            ELSE "the bundle doesn't exist")
           /\ UNCHANGED Container)]_vars

\* A create has failed on a bundle whose configuration does not load, and
\* there is no container.
C10_Witness ==
    /\ cliVerb = "create" /\ cliPc = "done"
    /\ cliResult = "failed to load the bundle configuration"
    /\ ~dir /\ file = NoFile /\ proc = "none"

----------------------------------------------------------------------------
\* The preconditions of start, kill and delete

NotCreated == "the container is not in the 'Created' state"

\* C11: a start invoked while the state file holds creating, running or
\* stopped returns the precondition error at once: no prestart or poststart
\* hook runs, no connection is made to the container socket, the child stays
\* where it is and the state file is unchanged.
C11_StartNotCreated ==
    [][(ops' = ops + 1 /\ cliVerb' = "start" /\ HostView
          /\ dir /\ file.status \in Statuses \ {"created"})
       => (/\ cliPc' = "done"
           /\ cliResult' = NotCreated
           /\ UNCHANGED Container)]_vars

\* A start has been refused on a container a state verb had moved to
\* running, and the child is still blocked in the accept before its start
\* phase.
C11_Witness ==
    /\ cliVerb = "start" /\ cliPc = "done" /\ cliResult = NotCreated
    /\ file.status = "running" /\ ChildBlockedAt("listen3")
    /\ Len(conns) = 2

\* The signals a kill invoked now may add to the pending ones: the signal of
\* its name, sent to the pid of the state file.
SentBy(name) == {<<file.pid, SignalOf(name)>>}

\* C12 as stated: a kill invoked on status creating or stopped returns an
\* error, sends nothing and leaves the state file; invoked on created or
\* running it sends the signal to the pid of the state file and to no other,
\* and then persists the refreshed state.
C12_KillSendsAndRefreshes ==
    [][/\ (ops' = ops + 1 /\ cliVerb' = "kill"
             /\ dir /\ file.status \in {"creating", "stopped"})
          => (/\ cliPc' = "done"
              /\ cliResult' \notin {"ok", "none"}
              /\ UNCHANGED Container)
       /\ (ops' = ops + 1 /\ cliVerb' = "kill"
             /\ dir /\ file.status \in {"created", "running"})
          => (/\ cliPc' = "kill_refresh"
              /\ sigs' \subseteq sigs \cup SentBy(cliArg')
              /\ file' = file)
       /\ (cliVerb = "kill" /\ cliPc = "kill_refresh" /\ cliPc' = "done")
          => (/\ cliResult' = "ok"
              /\ \E ps \in InspectProcess(file.pid) : file' = Refresh(file, ps))
      ]_vars

\* C12 amended: the same, except that on status created or running the
\* signal is sent, and the state refreshed, only when the process of the
\* state file still exists; when it does not, kill returns an error and
\* leaves the state file as it is.
C12_KillContract ==
    [][/\ (ops' = ops + 1 /\ cliVerb' = "kill"
             /\ dir /\ file.status \in {"creating", "stopped"})
          => (/\ cliPc' = "done"
              /\ cliResult' \notin {"ok", "none"}
              /\ UNCHANGED Container)
       /\ (ops' = ops + 1 /\ cliVerb' = "kill"
             /\ dir /\ file.status \in {"created", "running"})
          => IF KillDelivers(file.pid)
             THEN /\ cliPc' = "kill_refresh"
                  /\ sigs' \subseteq sigs \cup SentBy(cliArg')
                  /\ proc # "zombie" => SentBy(cliArg') \subseteq sigs'
                  /\ file.pid = childPid
                  /\ file' = file
             ELSE /\ cliPc' = "done"
                  /\ cliResult' = "failed to kill the container"
                  /\ UNCHANGED Container
       /\ (cliVerb = "kill" /\ cliPc = "kill_refresh" /\ cliPc' = "done")
          => (/\ cliResult' = "ok"
              /\ \E ps \in InspectProcess(file.pid) : file' = Refresh(file, ps))
      ]_vars

\* A kill has sent SIGKILL to the container process and persisted the
\* refreshed state.
C12_Witness ==
    /\ cliVerb = "kill" /\ cliArg = "KILL" /\ cliPc = "done" /\ cliResult = "ok"
    /\ file.status = "stopped" /\ file.pid = childPid /\ proc = "zombie"
    /\ sigs = {}

\* C13 as stated: a delete invoked on status stopped removes the container
\* directory and returns success, and a state verb after it fails; a delete
\* invoked on any other status fails and leaves the directory and the state
\* file.
C13_DeleteStopped ==
    [][/\ (ops' = ops + 1 /\ cliVerb' = "delete" /\ HostView
             /\ dir /\ file.status = "stopped")
          => (/\ ~dir' /\ file' = NoFile
              /\ cliPc' \in {"done", "poststop"}
              /\ cliPc' = "done" => cliResult' = "ok")
       /\ (cliVerb = "delete" /\ cliPc = "poststop" /\ cliPc' = "done")
          => cliResult' = "ok"
       /\ (ops' = ops + 1 /\ cliVerb' = "state" /\ cliVerb = "delete" /\ ~dir)
          => (cliPc' = "done" /\ cliResult' = "failed to read the state")
       /\ (ops' = ops + 1 /\ cliVerb' = "delete" /\ HostView
             /\ dir /\ file.status \in Statuses \ {"stopped"})
          => (/\ cliPc' = "done"
              /\ cliResult' = "the container is not in the 'Stopped' state"
              /\ UNCHANGED Container)
      ]_vars

\* C14 as stated: when a kill with TERM, invoked right after a start that
\* succeeded on a container with a process, has returned, the state file
\* holds status stopped.
C14_KillTermStops ==
    (/\ cliVerb = "kill" /\ cliArg = "TERM" /\ cliPc = "done" /\ cliResult = "ok"
     /\ prior = <<"start", "ok">> /\ HasProcess(childBundle))
    => file.status = "stopped"

----------------------------------------------------------------------------
\* Failures of the child

\* The error a verb returns for the error text of the child.
Reported(verb, err) ==
    ErrorOf(IF verb = "create" THEN "failed to create the container"
            ELSE "failed to start the container", Message("stopped", err))

\* C15 as stated: when the child has failed at a step of its pipeline, the
\* verb that reads the message of that phase returns an error that carries
\* the error text of the child, and the state file stays as it was.
C15_ChildFailureReported ==
    [][(cliPc \in {"read1", "read2", "read3"} /\ cliPc' # cliPc
          /\ CliReadable /\ childErr # "none")
       => (/\ cliPc' = "done"
           /\ cliResult' = Reported(cliVerb, childErr)
           /\ file' = file)]_vars

\* The messages written on the stream the child holds.
SrvBuf == IF srvEpoch >= 1 THEN conns[srvEpoch].buf ELSE <<>>

\* C16 as stated: when a step of the pipeline has failed the child writes one
\* message, which carries the error text and the status creating before
\* pivot_root and stopped after it, writes nothing else, and exits without
\* having reached execvp.
C16_ErrorMessage ==
    [][(childPc = "error" /\ conns' # conns)
       => (/\ conns' = SrvWrite(Message(IF pivoted THEN "stopped" ELSE "creating",
                                        childErr))
           /\ \A i \in 1..Len(SrvBuf) : SrvBuf[i].error = "none"
           /\ childPc' = "exit"
           /\ childErr # "execvp failed")]_vars

\* C17 as stated: a start on a container whose bundle has no process returns
\* success, and it does so on the message the child sends for the missing
\* process: status stopped with the error text start compares with.
C17_NoProcessShim ==
    [][(cliVerb = "start" /\ cliPc = "read3" /\ cliPc' # cliPc
          /\ ~HasProcess(cliSt.bundle))
       => (/\ cliPc' = "done" /\ cliResult' = "ok"
           /\ Head(conns[Len(conns)].buf) = Message("stopped", ProcessMissingShim)
           /\ file' = file)]_vars

----------------------------------------------------------------------------
\* The drop of privileges in start_container

\* The order of the steps as the specification lists them.
PrivilegeDrop ==
    <<"env", "rlimits", "oom_score_adj", "bounding", "keepcaps_on", "setgid",
      "umask", "setgroups", "setuid", "keepcaps_off", "effective", "permitted",
      "inheritable", "ambient", "chdir">>

\* The steps passed are the first steps of the listed order.
InOrder ==
    /\ Len(privLog) <= Len(PrivilegeDrop)
    /\ \A i \in 1..Len(privLog) : privLog[i] = PrivilegeDrop[i]

\* The child of a bundle with a process writes running, or calls execvp.
AtRunning ==
    /\ HasProcess(childBundle)
    /\ childPc \in {"write_running", "execvp", "running"}

\* C18 as stated: the steps of the privilege drop are taken in the listed
\* order, a step only after the step before it succeeded, and the running
\* message and execvp come after all of them have.
C18_PrivilegeOrder ==
    /\ InOrder
    /\ \A i \in 2..Len(privLog) : privLog[i - 1] \notin privErr
    /\ AtRunning => privLog = PrivilegeDrop /\ privErr = {}

\* C18 amended: the steps are taken in the listed order and the running
\* message and execvp come after all of them; a step is taken only after the
\* step before it succeeded, except that a failure to apply the effective,
\* permitted, inheritable or ambient set is printed and the steps go on.
C18_PrivilegeOrderPrinted ==
    /\ InOrder
    /\ \A i \in 2..Len(privLog) :
          privLog[i - 1] \in privErr
          => privLog[i - 1] \in {"effective", "permitted", "inheritable", "ambient"}
    /\ AtRunning =>
          /\ privLog = PrivilegeDrop
          /\ privErr \subseteq {"effective", "permitted", "inheritable", "ambient"}

\* The child has passed every step and is about to call execvp, the ambient
\* set not applied.
C18_Witness ==
    /\ childPc = "execvp" /\ HasProcess(childBundle)
    /\ privLog = PrivilegeDrop /\ privErr = {"ambient"}

\* The bounding step has been taken, with a declared set.
BoundingDone ==
    /\ \E i \in 1..Len(privLog) : privLog[i] = "bounding"
    /\ declared # {}

\* C19 as stated: after the bounding step the bounding set of the process is
\* the declared set, whatever the set the process began with.
C19_BoundingEqualsDeclared ==
    BoundingDone => \A d \in declared : bounding = d

\* C19 amended: a bounding step that returns Ok leaves the capabilities the
\* process had that are declared, and no other: a subset of the declared
\* set, equal to it when the process had all of it; without a declared set
\* it leaves the bounding set alone. A bounding step that returns an error
\* leaves a set between that one and the set the process had.
C19_BoundingIsIntersection ==
    [][/\ (/\ Len(privLog') = Len(privLog) + 1
           /\ privLog'[Len(privLog')] = "bounding"
           /\ "bounding" \notin privErr')
          => /\ \A d \in declared :
                  /\ bounding' = bounding \cap d
                  /\ bounding' \subseteq d
                  /\ d \subseteq bounding => bounding' = d
             /\ declared = {} => bounding' = bounding
       /\ ("bounding" \in privErr' /\ "bounding" \notin privErr)
          => \A d \in declared :
                 /\ bounding \cap d \subseteq bounding'
                 /\ bounding' \subseteq bounding
      ]_vars

\* The step has been taken on a process that lacked a declared capability
\* and had one that is not declared.
C19_Witness ==
    /\ BoundingDone
    /\ declared = {{"CAP_CHOWN", "CAP_KILL"}}
    /\ bounding = {"CAP_CHOWN"}

----------------------------------------------------------------------------
\* The namespaces of the child

\* linux.namespaces lists the kind without a path.
ListedWithoutPath(list, kind) ==
    \E i \in 1..Len(list) : list[i].typ = kind /\ list[i].path = "none"

\* C20 as stated: the flag word the child was cloned with holds the flag of
\* a namespace kind exactly when linux.namespaces lists the kind without a
\* path; a kind listed with a path adds no flag, and an empty list gives the
\* empty word.
C20_CloneFlagsOfPathless ==
    childPc # "none" =>
        \A kind \in NamespaceKinds :
            namespace_to_clone_flag(kind) \in cloneFlags
            <=> ListedWithoutPath(Namespaces(childBundle), kind)

----------------------------------------------------------------------------
\* The socket files

\* C21 as stated: a socket's file is gone once its server has ended: after
\* create has returned, with or without an error, init.sock does not exist,
\* and after the child has ended, by exit(1) or by execvp, container.sock
\* does not exist.
C21_SocketsRemoved ==
    /\ (cliVerb = "create" /\ cliPc = "done") => ~initSock
    /\ childPc \in {"exited", "running"} => ~ctrSock

----------------------------------------------------------------------------
\* The hooks of a slot

\* C22: run_hook returns Ok only for a hook that exited with code 0; after a
\* hook that exited with another code, was killed by a signal or could not
\* be spawned it returns an error, no further hook of the slot is begun and
\* the verb, or the phase of the child, fails. The hooks of a slot run one
\* after the other in the order of the list: a hook is begun only when the
\* one before it has returned Ok, and it is the next of the list.
C22_HookFailureEndsSlot ==
    [][/\ (CliInHook /\ hookProc.cli \notin {"none", "running"}
             /\ <<cliPc, cliHook>>' # <<cliPc, cliHook>>) =>
            IF hookProc.cli = "exit 0"
            THEN /\ failed' = failed
                 /\ \/ /\ cliHook < Hooks(cliSt.bundle, cliPc)
                       /\ cliPc' = cliPc /\ cliHook' = cliHook + 1
                       /\ hookLog' = Append(hookLog, cliPc)
                    \/ /\ cliHook = Hooks(cliSt.bundle, cliPc)
                       /\ cliPc' = AfterSlot(cliPc)
                       /\ hookLog' = hookLog
            ELSE /\ cliPc' = "done" /\ cliResult' \notin {"ok", "none"}
                 /\ hookLog' = hookLog
       /\ (ChildInHook /\ hookProc.child \notin {"none", "running"}
             /\ <<childPc, childHook>>' # <<childPc, childHook>>) =>
            IF hookProc.child = "exit 0"
            THEN /\ childErr' = "none"
                 /\ \/ /\ childHook < Hooks(childBundle, childPc)
                       /\ childPc' = childPc /\ childHook' = childHook + 1
                       /\ hookLog' = Append(hookLog, childPc)
                    \/ /\ childHook = Hooks(childBundle, childPc)
                       /\ childPc' \in {"pivot_rootfs", "start_container"}
                       /\ hookLog' = hookLog
            ELSE /\ childPc' = "error" /\ childErr' # "none"
                 /\ hookLog' = hookLog
       /\ (Len(hookLog') = Len(hookLog) + 1) =>
            \/ /\ hookProc.cli \in {"none", "exit 0"}
               /\ cliPc' = hookLog'[Len(hookLog')]
               /\ cliHook' = (IF cliPc' = cliPc THEN cliHook ELSE 0) + 1
               /\ hookProc'.cli \in Spawned
            \/ /\ hookProc.child \in {"none", "exit 0"}
               /\ childPc' = hookLog'[Len(hookLog')]
               /\ childHook' = (IF childPc' = childPc THEN childHook ELSE 0) + 1
               /\ hookProc'.child \in Spawned]_vars

\* create has failed on the first of several createRuntime hooks, which did
\* not end with the exit code 0, and the second was never begun.
C22_Witness ==
    /\ cliVerb = "create" /\ cliPc = "done"
    /\ cliResult = "failed to run the hook"
    /\ Hooks(cliSt.bundle, "createRuntime") >= 2
    /\ Count(hookLog, "createRuntime") = 1

\* C23 as stated: a hook that declares a timeout does not keep the runtime
\* waiting for ever: run_hook returns, in the CLI and in the child, also
\* when the hook never exits by itself.
C23_HookTimeout ==
    /\ (CliInHook /\ hookProc.cli = "running" /\ Timeout(cliSt.bundle, cliPc))
          ~> ~(CliInHook /\ hookProc.cli = "running")
    /\ (ChildInHook /\ hookProc.child = "running" /\ Timeout(childBundle, childPc))
          ~> ~(ChildInHook /\ hookProc.child = "running")

----------------------------------------------------------------------------
\* The state record by itself

\* C24: refresh sets the status to running for the process states R, S and
\* D, to stopped for T, t, Z and X and for a process that cannot be
\* inspected; for any other process state, and for a state whose pid is -1,
\* it leaves the status as it is; it never changes the id, the bundle, the
\* pid or the annotations.
C24_RefreshMapping ==
    cliPc = "refreshed" =>
        /\ cliSt.id = file.id /\ cliSt.bundle = file.bundle
        /\ cliSt.pid = file.pid /\ cliSt.annotations = file.annotations
        /\ (file.pid # -1 /\ stat \in {"R", "S", "D"}) => cliSt.status = "running"
        /\ (file.pid # -1 /\ stat \in {"T", "t", "Z", "X", "unreadable"})
              => cliSt.status = "stopped"
        /\ (file.pid = -1 \/ stat \in {"K", "W", "P", "I"})
              => cliSt.status = file.status

\* refresh has met a process in a state it does not map, in a created
\* container, and has left the status alone.
C24_Witness ==
    /\ cliPc = "refreshed"
    /\ file.pid = 2 /\ file.status = "created"
    /\ stat = "I" /\ cliSt.status = "created"

----------------------------------------------------------------------------
\* The state after start

\* C26: when start reads the running message of a container with a process
\* it persists the refreshed state: running if the process is alive, stopped
\* if it has exited, with the pid it had; so after a start that returned
\* success the persisted status is not created; and a state call made when
\* the process has exited prints stopped.
C26_StartPersists ==
    /\ []((cliVerb = "start" /\ cliPc = "done" /\ cliResult = "ok"
             /\ HasProcess(childBundle)) => file.status \in {"running", "stopped"})
    /\ [][/\ (/\ cliVerb = "start" /\ cliPc = "read3" /\ cliPc' # "read3"
              /\ HasProcess(childBundle)
              /\ CliReadable
              /\ Head(conns[Len(conns)].buf).status = "running") =>
                /\ file'.pid = file.pid
                /\ proc \in {"alive", "stopped"} => file'.status = "running"
                /\ proc \in {"zombie", "gone"} => file'.status = "stopped"
          /\ (/\ cliVerb' = "state" /\ ops' = ops + 1 /\ cliResult' = "ok"
              /\ file.pid > 0 /\ proc \in {"zombie", "gone"}) =>
                stdout'.status = "stopped"]_vars

\* start has returned success for a container with a process, the process
\* has exited, and the state call after it has printed stopped.
C26_Witness ==
    /\ HasProcess(childBundle)
    /\ cliVerb = "state" /\ cliPc = "done" /\ prior = <<"start", "ok">>
    /\ proc \in {"zombie", "gone"}
    /\ stdout.status = "stopped" /\ stdout.pid = childPid

----------------------------------------------------------------------------
\* The mount options

\* The set/clear pairs: the option that sets, the one that clears, the flag.
Pairs ==
    {<<"ro", "rw", "MS_RDONLY">>, <<"nosuid", "suid", "MS_NOSUID">>,
     <<"nodev", "dev", "MS_NODEV">>, <<"noexec", "exec", "MS_NOEXEC">>,
     <<"sync", "async", "MS_SYNCHRONOUS">>, <<"mand", "nomand", "MS_MANDLOCK">>,
     <<"noatime", "atime", "MS_NOATIME">>,
     <<"nodiratime", "diratime", "MS_NODIRATIME">>}

\* The places of a list that hold an option of a pair.
Places(list, pair) == {i \in 1..Len(list) : list[i] \in {pair[1], pair[2]}}

Last(set) == CHOOSE i \in set : \A j \in set : j <= i

\* C27: of the options of a set/clear pair the last one wins: the flag of
\* the pair is set exactly when the last option of the pair in the list is
\* the one that sets it, whatever options of the pair come before it, and it
\* is clear when the list has no option of the pair.
C27_LastOfPairWins ==
    mounted # NotMounted =>
        \A pair \in Pairs :
            pair[3] \in mounted.flags
            <=> /\ Places(options, pair) # {}
                /\ options[Last(Places(options, pair))] = pair[1]

\* A list that sets a flag and later clears it, with another option in
\* between, has been translated.
C27_Witness ==
    /\ mounted # NotMounted
    /\ options = <<"ro", "nosuid", "rw">>
    /\ mounted.flags = {"MS_NOSUID"}

\* The options of a list that have an arm, and those that have none.
WithArm(list) == SelectSeq(list, LAMBDA o : o \in Recognised)
WithoutArm(list) == SelectSeq(list, LAMBDA o : o \notin Recognised)

\* A list of strings with a comma between each two.
RECURSIVE Commas(_)
Commas(list) ==
    IF Len(list) = 0 THEN ""
    ELSE IF Len(list) = 1 THEN list[1]
    ELSE Commas(SubSeq(list, 1, Len(list) - 1)) \o "," \o list[Len(list)]

\* C28: every option is handled in exactly one way: the flag word is that of
\* the recognised options alone, which leave the data empty, and the data is
\* that of the other options alone, which leave the flag word empty: they
\* appear in it in their order, duplicates included, with commas between.
C28_FlagsOrData ==
    mounted # NotMounted =>
        /\ mounted.flags = mount_to_msflags(WithArm(options)).flags
        /\ mount_to_msflags(WithArm(options)).data = ""
        /\ mounted.data = mount_to_msflags(WithoutArm(options)).data
        /\ mount_to_msflags(WithoutArm(options)).flags = {}
        /\ mounted.data = Commas(WithoutArm(options))

\* A list with an option without arm twice, around one with an arm, has
\* been translated.
C28_Witness ==
    /\ mounted # NotMounted
    /\ options = <<"size=64k", "nosuid", "size=64k">>
    /\ mounted = [flags |-> {"MS_NOSUID"}, data |-> "size=64k,size=64k"]

----------------------------------------------------------------------------
\* C29

\* The place of a call in the order the specification gives to the
\* environment steps.
Rank(call) ==
    CASE call[1] = "setns" -> 1
      [] call[1] = "mount_rootfs" -> 2
      [] call[1] = "custom_mount" -> 3
      [] call[1] = "create_device" -> 4
      [] call[1] = "create_default_device" -> 5
      [] call[1] = "create_default_symlink" -> 6
      [] call[1] = "set_hostname" -> 7

\* The calls the bundle asks for, as a set.
Required(b) ==
    {<<"setns", k>> :
        k \in {n \in 1..Len(Namespaces(b)) : Namespaces(b)[n].path # "none"}}
    \cup {<<"mount_rootfs", 1>>, <<"mount_rootfs", 2>>}
    \cup {<<"custom_mount", i>> : i \in 1..Mounts(b)}
    \cup {<<"create_device", i>> : i \in 1..Devices(b)}
    \cup {<<"create_default_device", 1>>, <<"create_default_symlink", 1>>}
    \cup (IF Hostname(b) THEN {<<"set_hostname", 1>>} ELSE {})

\* The same for every bundle a child can have been made from.
Asked == [b \in {"full", "noproc", "nsnoproc"} |-> Required(b)]

Passed == {envLog[i] : i \in 1..Len(envLog)}

\* C29: the environment steps of the child follow one another in the order
\* setns, root mounts, mounts of the list in list order, devices of the
\* list, default devices, default symlinks, hostname, and a step is passed only
\* when every
\* step the bundle asks for before it has been passed (so no mount and no
\* mknod comes before the last setns); the createContainer hooks begin only
\* with all of these passed and the createRuntime hooks run, pivot_root
\* comes after the createContainer hooks, the sysctl after pivot_root, and
\* behind pivot_root the child makes no environment step any more.
C29_EnvironmentOrder ==
    /\ \A i \in 1..Len(envLog) - 1 :
          \/ Rank(envLog[i]) < Rank(envLog[i + 1])
          \/ /\ Rank(envLog[i]) = Rank(envLog[i + 1])
             /\ envLog[i][2] < envLog[i + 1][2]
    /\ envLog # <<>> =>
          /\ Passed \subseteq Asked[childBundle]
          /\ \A earlier \in Asked[childBundle] :
                Rank(earlier) < Rank(envLog[Len(envLog)]) => earlier \in Passed
    /\ proc = "alive" /\ childPc \in {"createContainer", "pivot_rootfs", "set_sysctl"}
          => /\ Passed = Asked[childBundle]
             /\ Count(hookLog, "createRuntime") = Hooks(childBundle, "createRuntime")
    /\ proc = "alive" /\ childPc = "pivot_rootfs"
          => /\ Count(hookLog, "createContainer") = Hooks(childBundle, "createContainer")
             /\ ~pivoted
    /\ proc = "alive" /\ childPc = "set_sysctl" => pivoted
    /\ proc = "alive" /\ pivoted
          => childPc \notin {"bind", "connect_init", "listen1", "init_environment",
                             "write_creating", "listen2", "createContainer",
                             "pivot_rootfs"}

\* The child of the full bundle has joined the network namespace, mounted,
\* made the devices, set the hostname, run the createContainer hooks and
\* changed the root, and stands before the sysctl.
C29_Witness ==
    /\ proc = "alive" /\ childPc = "set_sysctl" /\ pivoted
    /\ childBundle = "full"
    /\ envLog[1] = <<"setns", 3>>
    /\ envLog[Len(envLog)] = <<"set_hostname", 1>>
    /\ Len(envLog) = 9
    /\ Count(hookLog, "createContainer") = Hooks("full", "createContainer")

----------------------------------------------------------------------------
\* C30

\* C30: the keep-capabilities flag is set when the child passes setgid,
\* setgroups and setuid and stays set over each of them, it is clear when
\* the child writes the effective, permitted, inheritable or ambient set,
\* and it is clear whenever the child stands at execvp or has passed it.
C30_KeepCaps ==
    [][/\ privLog' # privLog /\ privLog' # <<>>
          => LET step == privLog'[Len(privLog')] IN
             /\ step \in {"setgid", "setgroups", "setuid"}
                   => keepcaps /\ keepcaps'
             /\ step \in {"effective", "permitted", "inheritable", "ambient"}
                   => ~keepcaps /\ ~keepcaps'
       /\ childPc' \in {"execvp", "running"} /\ proc' # "zombie" => ~keepcaps'
      ]_vars

\* The child has changed its ids and written the four capability sets, and
\* stands at execvp with the flag clear.
C30_Witness ==
    /\ childPc = "execvp" /\ proc = "alive"
    /\ \E i, j \in 1..Len(privLog) :
          i < j /\ privLog[i] = "setuid" /\ privLog[j] = "ambient"
    /\ ~keepcaps

----------------------------------------------------------------------------
\* C31

\* C31 as stated: a child that stands at execvp, or has passed it, has had
\* no failure in dropping the bounding capabilities nor in writing the
\* effective, permitted, inheritable or ambient set: such a failure ended
\* the child with an error message before.
C31_CapFailureExits ==
    proc = "alive" /\ childPc \in {"execvp", "running"}
       => privErr \cap {"bounding", "effective", "permitted", "inheritable",
                        "ambient"} = {}

----------------------------------------------------------------------------
\* C32

\* The child has remounted its root read-only as the last call of
\* pivot_rootfs.
RemountedLast ==
    pivotLog # <<>> /\ pivotLog[Len(pivotLog)] = "remount_readonly"

\* C32 as stated: the child of a bundle with root.readonly set remounts its
\* root read-only as the last step of pivot_rootfs, so that from the return
\* of pivot_rootfs on, execvp and the container process included, its root
\* is read-only; the child of a bundle without it never remounts.
C32_ReadonlyRoot ==
    (proc = "alive" /\ pivoted) => (RemountedLast <=> Readonly(childBundle))

----------------------------------------------------------------------------
\* C33

\* C33 as stated: outside pivot_rootfs no rootfs holds a root_archive; on
\* whatever path the child has left the function, by its Ok or by the error
\* of one of its calls, the directory it created is gone.
C33_NoArchiveLeak ==
    ~(proc = "alive" /\ childPc = "pivot_rootfs") => rootArchive = {}

----------------------------------------------------------------------------
\* C34

\* C34: a connection arrives at the init socket only from the child that
\* has bound container.sock, and only once: it is the one made at the
\* child's connect, with no other pending; the CLI takes a connection from
\* the init socket only at its one accept of create, and it is that one;
\* so when the accept has returned and the CLI is about to connect to
\* container.sock for the first time, the socket is bound and its server
\* alive.
C34_InitHandshake ==
    [][/\ initPending' > initPending
          => /\ initPending = 0 /\ initPending' = 1
             /\ childPc = "connect_init" /\ childPc' = "listen1"
             /\ ctrSock
             /\ cliVerb = "create" /\ cliPc = "init_listen"
       /\ initPending' < initPending /\ cliPc' # "done"
          => /\ initPending = 1 /\ initPending' = 0
             /\ cliVerb = "create" /\ cliPc = "init_listen" /\ cliPc' = "connect1"
             /\ childPc = "listen1"
       /\ cliPc' = "connect1"
          => /\ cliPc = "init_listen"
             /\ initPending' = 0
             /\ ctrSock' /\ ServerAlive'
       /\ childPc \in {"bind", "connect_init"} /\ proc = "alive"
          => cliPc = "init_listen" /\ initPending = 0
      ]_vars

\* The accept of the CLI has returned: the child has bound its socket and
\* connected, and the CLI is about to connect to container.sock.
C34_Witness ==
    /\ cliVerb = "create" /\ cliPc = "connect1"
    /\ ctrSock /\ childPc = "listen1" /\ proc = "alive"
    /\ initPending = 0

----------------------------------------------------------------------------
\* C35

\* A String of one line: no newline in it but, at most, as its last
\* character.
SingleLine(text) == FirstNewline(text) \in {0, Len(text)}

\* C35: the client connects to the bound server whether or not the server
\* has accepted, and the accept of listen takes a connection made before
\* it; a String of one line written by the server is what the read of the
\* client returns, and one written by the client is what the read of the
\* server returns.
C35_SocketRoundTrip ==
    [][/\ sock'.client = "open" /\ sock.client = "none"
          => sock.bound /\ sock.stream = "None" /\ sock'.pending = 1
       /\ sock'.stream = "Some" /\ sock.stream = "None"
          => sock.pending = 1 /\ sock.client # "none"
       /\ sock'.got # {} /\ SingleLine(sock.text)
          => /\ sock'.got = {sock.text}
             /\ sock.written /\ sock'.stream = "Some"
      ]_vars

\* The server has accepted the connection made before its listen and has
\* read the line the client wrote.
C35_Witness ==
    /\ sock.writer = "client" /\ sock.text = <<"a", "a", Newline>>
    /\ sock.stream = "Some"
    /\ sock.got = {sock.text}

----------------------------------------------------------------------------
\* C36

\* C36 as stated: the child ends by itself in two ways only: as the
\* container process, after a successful execvp, or by exit(1) after it has
\* written the error of the pipeline to the socket (it is not ended by a
\* signal in either case).
C36_ExecvpOrExit ==
    [][proc = "alive" /\ proc' = "zombie" /\ sigs' = sigs
       => \/ childPc = "running"
          \/ /\ childPc = "exit"
             /\ SrvBuf # <<>>
             /\ SrvBuf[Len(SrvBuf)] = Message(ErrorStatus, childErr)
             /\ childErr' = childErr
      ]_vars

----------------------------------------------------------------------------
\* C37

\* C37 as stated: when the first message create reads from the container
\* socket carries an error, whatever its status, create runs no
\* createRuntime hook and returns that error.
C37_NoHooksOnError ==
    [][cliVerb = "create" /\ cliPc = "read1" /\ cliPc' # "read1"
       /\ CliReadable
       /\ Head(conns[Len(conns)].buf).error # "none"
       => /\ hookLog' = hookLog
          /\ cliPc' = "done"
          /\ cliResult' = ErrorOf("failed to create the container",
                                  Head(conns[Len(conns)].buf))
      ]_vars

----------------------------------------------------------------------------
\* C38

\* C38 as stated: a state call on a created container whose child is alive
\* and waits in the accept of its third listen leaves the persisted status
\* created, and a persisted status goes from created to running only in
\* start.
C38_StateKeepsCreated ==
    [][/\ (/\ cliVerb' = "state" /\ ops' = ops + 1
           /\ file.status = "created"
           /\ proc = "alive" /\ childPc = "listen3")
          => file'.status = "created"
       /\ file.status = "created" /\ file'.status = "running"
          => cliVerb' = "start"
      ]_vars

----------------------------------------------------------------------------
\* C39

\* C39 as stated, in its finite form: create is never left in a call that
\* cannot return. Once the cloned child has ended, the accept of the create
\* that waits on init.sock can return, and so can the read of the create
\* that waits on container.sock.
C39_CreateTerminates ==
    (cliVerb = "create" /\ proc \in {"zombie", "gone"}) =>
        /\ cliPc = "init_listen" => ENABLED CreateInitListen
        /\ cliPc \in {"read1", "read2"} => ENABLED (CreateRead1 \/ CreateRead2)

----------------------------------------------------------------------------
\* C40

\* C40 as stated: the delete that removes the directory of the container
\* finds the container process ended; a process that still runs, or that is
\* only stopped by a signal, keeps its directory.
C40_DeleteOnlyDead ==
    [][(cliVerb' = "delete" /\ dir /\ ~dir')
          => proc \notin {"alive", "stopped"}]_vars

====
